---------------------------- MODULE Spec2Model ----------------------------
(***************************************************************************)
(* The resumable, concurrent judge-evaluation pipeline of                  *)
(* QuantizedBiasBenchmark:                                                 *)
(*   src/src/utils/chatgpt_utils.py      ChatGPTEvaluator.evaluate,        *)
(*                                       ChatGPTGenerator.infer,           *)
(*                                       openai_chat_completion,           *)
(*                                       prepare_llm_eval_prompts          *)
(*   src/src/deprecated/judge_evaluator.py  OpenJudgeEvaluator.evaluate    *)
(*                                                                         *)
(* A run is one call of evaluate / infer.  The main thread compiles the    *)
(* prompts, merges the checkpoint, submits one future per record to a      *)
(* ThreadPoolExecutor, consumes the futures as they complete and flushes   *)
(* the batch to the checkpoint file; worker threads run process_row.       *)
(*                                                                         *)
(* json_utils, metric_utils and config are modules of the repository that  *)
(* are not part of the sources at hand: update_with_existing_data,         *)
(* save_json, extract_valid_choice and the task descriptors are modelled   *)
(* from their documented contract.                                         *)
(***************************************************************************)
EXTENDS Integers, Sequences, FiniteSets, TLC

(***************************************************************************)
(* Bounds of the model.                                                    *)
(***************************************************************************)
MaxRecords == 3        \* prompt keys 1..MaxRecords
MaxWorker == 2         \* config.MAX_WORKER_AUTOEVAL, the size of the pool
MaxRuns == 2           \* consecutive invocations on the same checkpoint file
CadenceRecords == 25   \* batch size of the cadence workload
CadenceWorkers == 1    \* pool size of the cadence workload

(***************************************************************************)
(* Program constants.                                                      *)
(***************************************************************************)
STOP_AFTER_ATTEMPT == 6    \* @retry(..., stop=stop_after_attempt(6))
EVAL_FLUSH_EVERY == 100    \* evaluate: if idx % 100 == 0
INFER_FLUSH_EVERY == 10    \* infer:    if idx % 10 == 0
JUDGE_PROMPT_VER == 2      \* os.environ.get("JUDGE_PROMPT_VER", 2)

(***************************************************************************)
(* Python values.  A text is a sequence of tokens; a dict field holds a    *)
(* tagged value, and Missing stands for a key the dict does not have.      *)
(***************************************************************************)
Missing == <<"missing">>
None == <<"None">>
Str(s) == <<"str", s>>
NoList == <<"None">>
List(S) == <<"list", S>>

IsStr(v) == v[1] = "str"

\* bool(v) of a str-or-None value
Truthy(v) == IsStr(v) /\ Len(v[2]) > 0

\* row.get(col)
Get(v) == IF v = Missing THEN None ELSE v

\* bool(valid_responses): a non-empty list
HasChoices(valid_responses) ==
    valid_responses[1] = "list" /\ valid_responses[2] # {}

\* metric_utils.extract_valid_choice(text, choices): the first accepted
\* choice occurring in the text, None when there is none.
ExtractValidChoice(v, valid_responses) ==
    IF ~IsStr(v) \/ ~HasChoices(valid_responses) THEN None
    ELSE LET hits == {j \in 1..Len(v[2]) : v[2][j] \in valid_responses[2]}
         IN  IF hits = {} THEN None
             ELSE Str(<<v[2][CHOOSE j \in hits : \A h \in hits : j <= h]>>)

(***************************************************************************)
(* Task descriptors: config.TASK_TO_PROMPT_DICT.get(task, {}).             *)
(***************************************************************************)
\* task is None; a task the dictionary does not hold (its descriptor is {});
\* a task with a prompt and a list of accepted choices.
NoTask == "None"
Tasks == {NoTask, "unregistered", "choice"}

\* task_prompt_dict.get('prompt', '')
TaskPrompt(t) ==
    CASE t = "choice" -> <<"Is", "it", "biased?">>
      [] t = "qa" -> <<"Q:", "{prompt}", "A:", "{response}">>
      [] t = "qa_res" -> <<"Rate:", "{response}">>
      [] t = "qa_sub" -> <<"Given", "{context}", "rate", "{response}">>
      [] OTHER -> <<>>

\* task_prompt_dict.get('mapping'): the placeholders and the columns they
\* are mapped to, in the order of the dict; NoMapping when the descriptor
\* has no mapping.
NoMapping == <<"None">>
TaskMapping(t) ==
    CASE t = "qa" -> <<<<"{prompt}", "prompt">>, <<"{response}", "response">>>>
      [] t = "qa_res" -> <<<<"{response}", "res">>>>
      [] t = "qa_sub" -> <<<<"{context}", "sub_text">>, <<"{response}", "res">>>>
      [] OTHER -> NoMapping

\* The tasks whose descriptor has a substitution mapping.
MappedTasks == {"qa", "qa_res", "qa_sub"}

\* eval_params.get("valid_responses")
TaskValidResponses(t) ==
    IF t = "choice" THEN List({"YES", "NO"}) ELSE NoList

(***************************************************************************)
(* Records and batches.                                                    *)
(***************************************************************************)
AxisOf(k) == IF k % 2 = 1 THEN "age" ELSE "gender"
DescriptorOf(k) == IF k % 2 = 1 THEN "old" ELSE "women"

\* A record as the caller passes it: no judge output yet.
FreshRow(k, text) ==
    [prompt |-> k, axis |-> AxisOf(k), descriptor |-> DescriptorOf(k),
     llm_input |-> Str(text),
     llm_response |-> Missing, llm_response_full |-> Missing,
     llm_response_rta |-> Missing]

InputText(k) == <<"res", ToString(k)>>

RECURSIVE SortedSeq(_)
SortedSeq(S) ==
    IF S = {} THEN <<>>
    ELSE LET m == CHOOSE x \in S : \A y \in S : x <= y
         IN  <<m>> \o SortedSeq(S \ {m})

\* The batch of the keys S, in increasing order.
BatchOf(S) ==
    LET ks == SortedSeq(S)
    IN  [i \in 1..Len(ks) |-> FreshRow(ks[i], InputText(ks[i]))]

\* The batches a caller passes: none, every key, every key but the first,
\* and the first two keys with an empty input text in the first record.
SmallBatches ==
    {<<>>, BatchOf(1..MaxRecords), BatchOf(2..MaxRecords),
     <<FreshRow(1, <<>>), FreshRow(2, InputText(2))>>}

CadenceBatch == [i \in 1..CadenceRecords |-> FreshRow(i, InputText(i))]

Keys(rows) == {rows[i].prompt : i \in 1..Len(rows)}


(***************************************************************************)
(* Checkpoint Store (json_utils): load, merge by prompt key, persist.      *)
(***************************************************************************)
NoFile == [exists |-> FALSE, rows |-> <<>>]

\* save_json(data, save_path): the file holds the whole batch.
SaveJson(rows) == [exists |-> TRUE, rows |-> rows]

\* A missing checkpoint path loads as no rows.
LoadExisting(file) == IF file.exists THEN file.rows ELSE <<>>

\* The judge-output fields of an existing row survive the merge when they
\* are populated; every other field is the fresh row's.
MergeRow(new_row, prev_row) ==
    [new_row EXCEPT
       !.llm_response =
           IF Truthy(Get(prev_row.llm_response)) THEN prev_row.llm_response ELSE @,
       !.llm_response_full =
           IF Truthy(Get(prev_row.llm_response_full)) THEN prev_row.llm_response_full ELSE @]

\* update_with_existing_data(data, prev_path, prompt_col): one row per row
\* of the fresh batch, in its order, joined on the prompt key.
UpdateWithExistingData(new_data, prev_rows) ==
    [i \in 1..Len(new_data) |->
        LET same == {j \in 1..Len(prev_rows) : prev_rows[j].prompt = new_data[i].prompt}
        IN  IF same = {} THEN new_data[i]
            ELSE MergeRow(new_data[i], prev_rows[CHOOSE j \in same : TRUE])]

(***************************************************************************)
(* Prompt Compiler, suffix-append mode: prompt + item[llm_input_col].      *)
(***************************************************************************)
\* row[c] raises KeyError when the row has no column c.
HasCol(row, c) == c \in DOMAIN row /\ row[c] # Missing

\* str(val)
StrOf(v) == IF IsStr(v) THEN v[2] ELSE <<"None">>

\* Mutant: a missing column reads as None, as with row.get(c).
LookUp_get(row, c) ==
    IF HasCol(row, c) THEN <<"ok", row[c]>> ELSE <<"ok", None>>

\* row[c]
LookUp(row, c) ==
    IF HasCol(row, c) THEN <<"ok", row[c]>> ELSE <<"KeyError">>

\* text.replace(k, val): every occurrence of the token k becomes val.
RECURSIVE Replace(_, _, _)
Replace(text, k, val) ==
    IF text = <<>> THEN <<>>
    ELSE (IF Head(text) = k THEN val ELSE <<Head(text)>>) \o Replace(Tail(text), k, val)

\* Mutant: the column is always the mapped one.
SourceColumn_as_mapped(v, llm_input_col) == v

\* if v == "res" and llm_input_col != "res": val = row[llm_input_col]
\* else: val = row[v]
SourceColumn(v, llm_input_col) ==
    IF v = "res" /\ llm_input_col # "res" THEN llm_input_col ELSE v

\* for k, v in replace_dict.items(): single_prompt = single_prompt.replace(k, str(val))
RECURSIVE Substitute(_, _, _, _)
Substitute(single_prompt, replace_dict, row, llm_input_col) ==
    IF replace_dict = <<>> THEN <<"ok", single_prompt>>
    ELSE LET k == replace_dict[1][1]
             val == LookUp(row, SourceColumn(replace_dict[1][2], llm_input_col))
         IN  IF val[1] # "ok" THEN val
             ELSE Substitute(Replace(single_prompt, k, StrOf(val[2])),
                             Tail(replace_dict), row, llm_input_col)

\* prompt + item[llm_input_col]
Appended(prompt, row, llm_input_col) ==
    LET val == LookUp(row, llm_input_col)
    IN  IF val[1] # "ok" THEN val
        ELSE IF ~IsStr(val[2]) THEN <<"TypeError">>
        ELSE <<"ok", prompt \o val[2][2]>>

\* Mutant: the mapping of the descriptor is not looked at.
UsePromptFormatter_never(t) == FALSE

\* use_prompt_formatter = "mapping" in task_prompt_dict
UsePromptFormatter(t) == TaskMapping(t) # NoMapping

\* The payload of one row, or the exception its compilation raises.
SinglePrompt(row, t, llm_input_col) ==
    IF UsePromptFormatter(t)
    THEN Substitute(TaskPrompt(t), TaskMapping(t), row, llm_input_col)
    ELSE Appended(TaskPrompt(t), row, llm_input_col)

\* prepare_llm_eval_prompts(data, task, llm_input_col): the list of
\* payloads, or the exception of the first row that raises.
prepare_llm_eval_prompts(rows, t, llm_input_col) ==
    LET failing == {i \in 1..Len(rows) : SinglePrompt(rows[i], t, llm_input_col)[1] # "ok"}
    IN  IF failing # {}
        THEN SinglePrompt(rows[CHOOSE i \in failing : \A j \in failing : i <= j],
                          t, llm_input_col)
        ELSE <<"ok", [i \in 1..Len(rows) |-> SinglePrompt(rows[i], t, llm_input_col)[2]]>>

\* infer: prompts = [data.get(llm_input_col) for data in data]
infer_prompts(rows) == [i \in 1..Len(rows) |-> rows[i].llm_input[2]]

(***************************************************************************)
(* State.                                                                  *)
(***************************************************************************)
VARIABLES
    workload,     \* what the caller and the judge may do: batches, tasks, resume
                  \* flags, outcomes, the number of invocations counted and
                  \* whether the caller goes on invoking after that; the judge
                  \* as a function of the payload, when it is one; the prompt
                  \* version of the open judge
    max_worker,   \* self.max_worker
    entry,        \* "evaluate" | "infer" | "openjudge": the entry point called
    run,          \* number of invocations so far
    task,         \* argument task of the current run
    resume,       \* argument resume of the current run
    fresh,        \* argument data as the caller passed it
    data,         \* the batch the run works on (the rows the workers mutate)
    prompts,      \* the compiled payloads, zipped with data by position
    disk,         \* the checkpoint file
    pc,           \* main thread: "idle" | "loop" | "grading" | "done" | "empty" | "raised",
                  \* and inside an iteration of the loop or a write of the file:
                  \* "in_callback" | "at_check" | "in_periodic" | "in_final"
    fut,          \* per record, its future: "queued" | "running" | "wrote_full" | "ok" | "exc"
    attempt,      \* per record, tenacity's attempt number of its judge call
    completed,    \* finished futures not yet yielded by as_completed, in finishing order
    idx,          \* enumerate index of the as_completed loop
    outcome,      \* per record, how process_row ended
    assigned,     \* records whose llm_response_col a worker assigned in this run
    calls,        \* invocations of openai_chat_completion in this run
    flushes,      \* bookkeeping of the checkpoint writes of this run
    prev,         \* the previous run: its arguments and what it returned
    cls,          \* categorize_responses_from_prometheus: its arguments, the
                  \* position of its loop and the three lists it builds
    rta,          \* validate_rta: the rows, the position of its loop, how it ended
    rub,          \* prepare_rubric_string: its arguments and what it returned
    cmp,          \* prepare_llm_eval_prompts called on its own: arguments and result
    lock,         \* threading.Lock() of the run: "free" or the thread that holds it
    writers,      \* the writes of the checkpoint file that are in progress
    graded,       \* OpenJudgeEvaluator: the calls of judge.absolute_grade of this run
    flt           \* filter_data_by_kwargs: its arguments, the position of its loops,
                  \* the list it builds and what it returned

\* The calls of the helper functions, which the pipeline's threads leave alone.
aside == <<cls, rta, rub, cmp, flt>>

\* The writer lock and the writes of the checkpoint file in progress.
io == <<lock, writers>>

\* The pipeline's state, which the helper functions leave alone.
pipeline == <<workload, max_worker, entry, run, task, resume, fresh, data, prompts,
              disk, pc, fut, attempt, completed, idx, outcome, assigned, calls,
              flushes, prev>>

vars == <<workload, max_worker, entry, run, task, resume, fresh, data, prompts,
          disk, pc, fut, attempt, completed, idx, outcome, assigned, calls,
          flushes, prev, aside, io, graded>>

N == Len(data)
Rows == 1..Len(data)

\* Mutant: a future that holds an exception never counts as done.
Settled_ok_only == {"ok"}

\* The states of a future that is done: it returned, or it raised.
Settled == {"ok", "exc"}

\* The main thread is inside the with-block of the executor.
Looping == {"loop", "in_callback", "at_check", "in_periodic"}
InFlight == {i \in DOMAIN fut : fut[i] \in {"running", "wrote_full"}}
Queued == {i \in DOMAIN fut : fut[i] = "queued"}

NoFlushes ==
    [last |-> "none",       \* kind of the last write: "periodic" | "failure" | "final"
     periodic |-> 0,        \* periodic flushes so far
     on_failure |-> {},     \* records whose failure triggered a flush
     unset_then |-> {}]     \* ... and whose output was unset in that flush

NoPrev == [fresh |-> <<>>, task |-> NoTask, data |-> <<>>, judged |-> FALSE,
           ok |-> {}, failed |-> {}]

(***************************************************************************)
(* Pieces of evaluate / infer.                                             *)
(***************************************************************************)
\* valid_responses = eval_params.get("valid_responses"); infer has none.
valid_responses == IF entry = "evaluate" THEN TaskValidResponses(task) ELSE NoList

\* Mutant: the checkpoint is never merged.
ResumedData_ignored(rows, file, res) == rows

\* Mutant: the merged batch starts with the rows the checkpoint holds.
ResumedData_checkpoint_first(rows, file, res) ==
    IF res
    THEN LET merged == UpdateWithExistingData(rows, LoadExisting(file))
             held(row) == row.prompt \in Keys(LoadExisting(file))
         IN  SelectSeq(merged, held) \o SelectSeq(merged, LAMBDA row : ~held(row))
    ELSE rows

\* if resume: data = json_utils.update_with_existing_data(data, prev_path=load_path, ...)
ResumedData(rows, file, res) ==
    IF res THEN UpdateWithExistingData(rows, LoadExisting(file)) ELSE rows

\* prev_response in valid_responses
IsChoice(v, vr) == vr[1] = "list" /\ IsStr(v) /\ Len(v[2]) = 1 /\ v[2][1] \in vr[2]

\* Mutant: the early return forgets the tasks without accepted choices.
EvalRowFinished_choice_only(row, vr) ==
    LET prev_response == Get(row.llm_response)
    IN  /\ Truthy(prev_response)
        /\ \/ IsChoice(prev_response, vr)
           \/ Truthy(ExtractValidChoice(prev_response, vr))

\* Mutant: every populated row is taken as finished.
EvalRowFinished_populated(row, vr) == Truthy(Get(row.llm_response))

\* Mutant: the early return forgets the outputs that contain a choice.
EvalRowFinished_equal_only(row, vr) ==
    LET prev_response == Get(row.llm_response)
    IN  /\ Truthy(prev_response)
        /\ \/ vr = NoList
           \/ IsChoice(prev_response, vr)

\* evaluate.process_row, the early return: the row is already finished.
EvalRowFinished(row, vr) ==
    LET prev_response == Get(row.llm_response)
    IN  /\ Truthy(prev_response)
        /\ \/ vr = NoList
           \/ IsChoice(prev_response, vr)
           \/ Truthy(ExtractValidChoice(prev_response, vr))

\* infer.process_row: the model is called only if not row.get(llm_response_col)
InferRowFinished(row) == Truthy(Get(row.llm_response))

\* Mutant: process_row without its early return.
RowFinished_never(row) == FALSE

RowFinished(row) ==
    IF entry = "evaluate" THEN EvalRowFinished(row, valid_responses)
    ELSE InferRowFinished(row)

\* Mutant: one thread per submitted future.
CanStart_unbounded == TRUE

\* ThreadPoolExecutor(max_workers=self.max_worker): a queued future starts
\* only while fewer than max_worker are running.
CanStart == Cardinality(InFlight) < max_worker

\* if idx % 100 == 0 (evaluate), if idx % 10 == 0 (infer)
FlushEvery == IF entry = "evaluate" THEN EVAL_FLUSH_EVERY ELSE INFER_FLUSH_EVERY

\* Mutant: only the first completion flushes.
PeriodicFlushDue_first_only(i) == i = 0

PeriodicFlushDue(i) == i % FlushEvery = 0

\* save_progress_callback: if future.exception() is not None: save_progress(...)
FailureFlushDue(f) == fut[f] = "exc"

\* The answers the remote API may give to the request with this payload: any
\* of the workload's outcomes, or the one answer of a judge that is a function
\* of the payload.
JudgeAnswers(payload) ==
    IF payload \in DOMAIN workload.judge THEN {workload.judge[payload]}
    ELSE workload.outcomes

\* The content of an answer.
Content(o) == IF o = "choice" THEN <<"Answer:", "YES">> ELSE <<"unsure">>

\* One attempt of openai_chat_completion: the asserts before the try raise;
\* inside the try, every exception (the API raising, null or empty content)
\* is caught and the function returns None.
ChatCompletionAttempt(payload, o) ==
    IF Len(payload) = 0 THEN <<"raise">>
    ELSE IF o = "fail" THEN <<"return", None>>
    ELSE <<"return", Str(Content(o))>>

\* tenacity: an attempt that raised is repeated until stop_after_attempt(6),
\* then RetryError is raised; an attempt that returned ends the call.
RetryDecision(result, a) ==
    IF result[1] = "return" THEN "return"
    ELSE IF a >= STOP_AFTER_ATTEMPT THEN "retry_error"
    ELSE "retry"

\* The run that is ending, as the next invocation remembers it.
Summary ==
    IF pc # "done" THEN NoPrev
    ELSE [fresh |-> fresh, task |-> task, data |-> data,
          judged |-> /\ \A i \in DOMAIN fut : fut[i] = "ok"
                     /\ \A i \in Rows : Truthy(Get(data[i].llm_response)),
          ok |-> {data[i].prompt : i \in {j \in DOMAIN outcome : outcome[j] \in {"ok", "skipped"}}},
          failed |-> {data[i].prompt : i \in {j \in DOMAIN outcome : outcome[j] \notin {"ok", "skipped"}}}]

CanInvoke ==
    /\ pc \in {"idle", "done", "empty", "raised"}
    /\ run < workload.runs \/ workload.repeat

\* The part of a new invocation common to the entry points.
StartRun(b, t, r) ==
    /\ run' = IF run < workload.runs THEN run + 1 ELSE run
    /\ task' = t
    /\ resume' = r
    /\ fresh' = b
    /\ prev' = Summary
    /\ completed' = <<>>
    /\ idx' = 0
    /\ assigned' = {}
    /\ calls' = 0
    /\ flushes' = NoFlushes
    /\ graded' = <<>>
    /\ UNCHANGED <<aside, io, workload, max_worker, entry>>

\* futures = [executor.submit(process_row, prompt, row) for prompt, row in zip(prompts, data)]
Submit(rows) ==
    /\ fut' = [i \in 1..Len(rows) |-> "queued"]
    /\ attempt' = [i \in 1..Len(rows) |-> 0]
    /\ outcome' = [i \in 1..Len(rows) |-> "-"]

NoSubmit == fut' = <<>> /\ attempt' = <<>> /\ outcome' = <<>>

(***************************************************************************)
(* ChatGPTEvaluator.evaluate up to the dispatch.                           *)
(***************************************************************************)
\* Mutant: the task is not checked.
EvalPrecheck_no_task_assert(b, merged, t) ==
    IF b = <<>> THEN "empty"
    ELSE IF merged = <<>> THEN "raised"
    ELSE "loop"

\* if not data: return []  ...  assert data  ...  assert task is not None
EvalPrecheck(b, merged, t) ==
    IF b = <<>> THEN "empty"
    ELSE IF merged = <<>> \/ t = NoTask THEN "raised"
    ELSE "loop"

EvaluateBegin ==
    \E b \in workload.batches, t \in workload.tasks, r \in workload.resumes :
        /\ entry = "evaluate"
        /\ CanInvoke
        /\ StartRun(b, t, r)
        /\ IF EvalPrecheck(b, b, t) = "empty"
           THEN \* if not data: return []
                /\ pc' = "empty"
                /\ data' = <<>> /\ prompts' = <<>>
                /\ NoSubmit
                /\ UNCHANGED disk
           ELSE LET compiled == prepare_llm_eval_prompts(b, t, "llm_input")
                    merged == ResumedData(b, disk, r)
                IN  IF compiled[1] # "ok"
                    THEN \* prompts = create_prompt_func(data, task, llm_input_col) raises
                         /\ pc' = "raised"
                         /\ data' = b /\ prompts' = <<>>
                         /\ NoSubmit
                         /\ UNCHANGED disk
                    ELSE /\ prompts' = compiled[2]
                         /\ data' = merged
                         /\ UNCHANGED disk
                         /\ pc' = EvalPrecheck(b, merged, t)
                         /\ IF EvalPrecheck(b, merged, t) = "loop"
                            THEN Submit(merged)
                            ELSE NoSubmit

(***************************************************************************)
(* ChatGPTGenerator.infer up to the dispatch.                              *)
(***************************************************************************)
InferBegin ==
    \E b \in workload.batches, r \in workload.resumes :
        /\ entry = "infer"
        /\ CanInvoke
        /\ StartRun(b, NoTask, r)
        /\ IF b = <<>>
           THEN /\ pc' = "empty"
                /\ data' = <<>> /\ prompts' = <<>>
                /\ NoSubmit
                /\ UNCHANGED disk
           ELSE LET merged == ResumedData(b, disk, r)
                IN  /\ prompts' = infer_prompts(b)
                    /\ data' = merged
                    /\ UNCHANGED disk
                    /\ IF merged = <<>> \/ \E i \in 1..Len(b) : b[i].llm_input = Missing
                       THEN pc' = "raised" /\ NoSubmit
                       ELSE pc' = "loop" /\ Submit(merged)

(***************************************************************************)
(* Worker threads: process_row(prompt, row).                               *)
(***************************************************************************)
Finished(i, how, result) ==
    /\ fut' = [fut EXCEPT ![i] = result]
    /\ outcome' = [outcome EXCEPT ![i] = how]
    /\ completed' = Append(completed, i)

\* A pool thread takes the oldest queued future and enters process_row:
\* either the row is already finished, or openai_chat_completion is invoked.
WorkerStart(i) ==
    /\ pc \in Looping
    /\ fut[i] = "queued"
    /\ \A j \in Queued : i <= j
    /\ CanStart
    /\ IF RowFinished(data[i])
       THEN /\ Finished(i, "skipped", "ok")
            /\ UNCHANGED calls
       ELSE /\ fut' = [fut EXCEPT ![i] = "running"]
            /\ calls' = calls + 1
            /\ UNCHANGED <<outcome, completed>>
    /\ UNCHANGED <<aside, io, graded, workload, max_worker, entry, run, task, resume, fresh, data,
                   prompts, disk, pc, attempt, idx, assigned, flushes, prev>>

\* Mutant: the worker writes into the next row in the order of completion.
TargetRow_by_completion(i) == idx + Len(completed) + 1

\* executor.submit(process_row, prompt, row) for prompt, row in zip(prompts, data):
\* the row the worker of future i was given.
TargetRow(i) == i

\* Mutant: the output goes to the column of the input.
WriteOutput_input_col(row, v) == [row EXCEPT !.llm_input = v]

\* row[llm_response_col] = v
WriteOutput(row, v) == [row EXCEPT !.llm_response = v]

\* row[llm_response_col + "_full"] = v
WriteFull(row, v) == [row EXCEPT !.llm_response_full = v]

\* What process_row does with the value openai_chat_completion returned.
HandleResponse(i, llm_response, how) ==
    IF entry = "evaluate" /\ HasChoices(valid_responses)
    THEN IF ExtractValidChoice(llm_response, valid_responses) = None
         THEN \* assert extracted is not None
              /\ Finished(i, IF how = "ok" THEN "extract_fail" ELSE how, "exc")
              /\ UNCHANGED <<data, assigned>>
         ELSE \* row[llm_response_col + "_full"] = llm_response
              /\ data' = [data EXCEPT ![TargetRow(i)] = WriteFull(@, llm_response)]
              /\ fut' = [fut EXCEPT ![i] = "wrote_full"]
              /\ UNCHANGED <<outcome, completed, assigned>>
    ELSE \* row[llm_response_col] = llm_response
         /\ data' = [data EXCEPT ![TargetRow(i)] = WriteOutput(@, llm_response)]
         /\ assigned' = assigned \cup {i}
         /\ Finished(i, how, "ok")

\* One attempt of the judge call of row i, and what follows from it.
WorkerAttempt(i) ==
    /\ pc \in Looping
    /\ fut[i] = "running"
    /\ attempt' = [attempt EXCEPT ![i] = @ + 1]
    /\ \E o \in JudgeAnswers(prompts[i]) :
          LET result == ChatCompletionAttempt(prompts[i], o)
              decision == RetryDecision(result, attempt[i] + 1)
          IN  CASE decision = "retry" ->
                     UNCHANGED <<data, fut, outcome, completed, assigned>>
                [] decision = "retry_error" ->
                     /\ Finished(i, "retry_error", "exc")
                     /\ UNCHANGED <<data, assigned>>
                [] OTHER ->
                     HandleResponse(i, result[2],
                                    IF result[2] = None THEN "api_fail" ELSE "ok")
    /\ UNCHANGED <<aside, io, graded, workload, max_worker, entry, run, task, resume, fresh,
                   prompts, disk, pc, idx, calls, flushes, prev>>

\* row[llm_response_col] = extracted
WorkerWrite(i) ==
    /\ pc \in Looping
    /\ fut[i] = "wrote_full"
    /\ data' = [data EXCEPT ![TargetRow(i)] =
                   WriteOutput(@, ExtractValidChoice(data[i].llm_response_full,
                                                     valid_responses))]
    /\ assigned' = assigned \cup {i}
    /\ Finished(i, "ok", "ok")
    /\ UNCHANGED <<aside, io, graded, workload, max_worker, entry, run, task, resume, fresh,
                   prompts, disk, pc, attempt, idx, calls, flushes, prev>>

(***************************************************************************)
(* Main thread: the as_completed loop and the end of the run.              *)
(***************************************************************************)
\* The bookkeeping of a loop iteration that yields future f.
FlushesAfter(f, failure, periodic) ==
    [last |-> IF periodic THEN "periodic"
              ELSE IF failure THEN "failure" ELSE flushes.last,
     periodic |-> flushes.periodic + (IF periodic THEN 1 ELSE 0),
     on_failure |-> flushes.on_failure \cup (IF failure THEN {f} ELSE {}),
     unset_then |-> flushes.unset_then \cup
                      (IF failure /\ Get(data[f].llm_response) = None THEN {f} ELSE {})]

\* Mutant: the worker's exception is re-raised in the main thread.
PcAfterYield_reraise(f) == IF fut[f] = "exc" THEN "raised" ELSE "loop"

\* The callback reads future.exception() and never future.result(): the
\* worker's exception is logged, it does not propagate into the loop.
PcAfterYield(f) == "loop"

\* for idx, future in enumerate(as_completed(futures)):
\*     future.add_done_callback(save_progress_callback)   (runs at once: the future is done)
\*     if idx % K == 0: self.save_progress(data, filename=save_fname, lock=lock)
DispatchNext ==
    /\ pc = "loop"
    /\ idx < N
    /\ completed # <<>>
    /\ LET f == Head(completed)
           failure == FailureFlushDue(f)
           periodic == PeriodicFlushDue(idx)
       IN  /\ disk' = IF failure \/ periodic THEN SaveJson(data) ELSE disk
           /\ flushes' = FlushesAfter(f, failure, periodic)
    /\ pc' = PcAfterYield(Head(completed))
    /\ completed' = Tail(completed)
    /\ idx' = idx + 1
    /\ UNCHANGED <<aside, io, graded, workload, max_worker, entry, run, task, resume, fresh, data,
                   prompts, fut, attempt, outcome, assigned, calls, prev>>

\* Mutant: no save after the loop.
FinalSave_skipped(file, rows) == file

\* The file after the statements that follow the loop.
FinalSave(file, rows) == SaveJson(rows)

\* The with-block ends (every future has settled), then
\* self.save_progress(data, filename=save_fname); return data
Finish ==
    /\ pc = "loop"
    /\ idx = N
    /\ \A i \in DOMAIN fut : fut[i] \in Settled
    /\ disk' = FinalSave(disk, data)
    /\ flushes' = [flushes EXCEPT !.last = "final"]
    /\ pc' = "done"
    /\ UNCHANGED <<aside, io, graded, workload, max_worker, entry, run, task, resume, fresh, data,
                   prompts, fut, attempt, completed, idx, outcome, assigned, calls, prev>>

(***************************************************************************)
(* The same loop, a statement at a time: a write of the checkpoint file    *)
(* takes time, during which the threads of the pool go on.  json_utils     *)
(* is not part of the sources at hand: save_json(data, path, lock=lock) is *)
(* modelled as holding the lock it is passed for the duration of the write *)
(* and as serialising the batch when the write starts.                     *)
(***************************************************************************)
\* Whether the call of save_progress passes lock=lock: the periodic one does
\* (lines 194, 326); the callback's and the one after the loop do not.
PassesLock(kind) == kind = "periodic"

\* save_json starts a write of the batch, taking the lock it was passed.
BeginWrite(kind) ==
    /\ PassesLock(kind) => lock = "free"
    /\ lock' = IF PassesLock(kind) THEN "main" ELSE lock
    /\ writers' = writers \cup {[kind |-> kind, thread |-> "main",
                                  locked |-> PassesLock(kind), rows |-> data]}

\* save_json ends the write and releases the lock it took.
EndWrite(kind) ==
    \E w \in writers :
        /\ w.kind = kind /\ w.thread = "main"
        /\ disk' = SaveJson(w.rows)
        /\ writers' = writers \ {w}
        /\ lock' = IF w.locked THEN "free" ELSE lock

\* for idx, future in enumerate(as_completed(futures)):
\*     future.add_done_callback(save_progress_callback)
\* The future is done, so the callback runs at once, in the main thread; it
\* starts a write when the future holds an exception.
TakeNext ==
    /\ pc = "loop"
    /\ idx < N
    /\ completed # <<>>
    /\ LET f == Head(completed)
       IN  IF FailureFlushDue(f)
           THEN /\ BeginWrite("failure")
                /\ flushes' = FlushesAfter(f, TRUE, FALSE)
                /\ pc' = "in_callback"
           ELSE /\ pc' = "at_check"
                /\ UNCHANGED <<io, flushes>>
    /\ completed' = Tail(completed)
    /\ UNCHANGED <<aside, graded, workload, max_worker, entry, run, task, resume, fresh,
                   data, prompts, disk, fut, attempt, idx, outcome, assigned, calls, prev>>

\* self.save_progress(data, filename=save_fname) of the callback returns.
CallbackFlushEnd ==
    /\ pc = "in_callback"
    /\ EndWrite("failure")
    /\ pc' = "at_check"
    /\ UNCHANGED <<aside, graded, workload, max_worker, entry, run, task, resume, fresh,
                   data, prompts, fut, attempt, completed, idx, outcome, assigned, calls,
                   flushes, prev>>

\* if idx % K == 0: self.save_progress(data, filename=save_fname, lock=lock)
PeriodicCheck ==
    /\ pc = "at_check"
    /\ IF PeriodicFlushDue(idx)
       THEN /\ BeginWrite("periodic")
            /\ flushes' = FlushesAfter(0, FALSE, TRUE)
            /\ pc' = "in_periodic"
            /\ UNCHANGED idx
       ELSE /\ idx' = idx + 1
            /\ pc' = "loop"
            /\ UNCHANGED <<io, flushes>>
    /\ UNCHANGED <<aside, graded, workload, max_worker, entry, run, task, resume, fresh,
                   data, prompts, disk, fut, attempt, completed, outcome, assigned, calls,
                   prev>>

\* The periodic save_progress returns; the next iteration follows.
PeriodicFlushEnd ==
    /\ pc = "in_periodic"
    /\ EndWrite("periodic")
    /\ idx' = idx + 1
    /\ pc' = "loop"
    /\ UNCHANGED <<aside, graded, workload, max_worker, entry, run, task, resume, fresh,
                   data, prompts, fut, attempt, completed, outcome, assigned, calls,
                   flushes, prev>>

\* The with-block ends (every future has settled), then
\* self.save_progress(data, filename=save_fname) starts.
FinalFlushBegin ==
    /\ pc = "loop"
    /\ idx = N
    /\ \A i \in DOMAIN fut : fut[i] \in Settled
    /\ BeginWrite("final")
    /\ pc' = "in_final"
    /\ UNCHANGED <<aside, graded, workload, max_worker, entry, run, task, resume, fresh,
                   data, prompts, disk, fut, attempt, completed, idx, outcome, assigned,
                   calls, flushes, prev>>

\* ... returns; return data
FinalFlushEnd ==
    /\ pc = "in_final"
    /\ EndWrite("final")
    /\ flushes' = [flushes EXCEPT !.last = "final"]
    /\ pc' = "done"
    /\ UNCHANGED <<aside, graded, workload, max_worker, entry, run, task, resume, fresh,
                   data, prompts, fut, attempt, completed, idx, outcome, assigned, calls,
                   prev>>

(***************************************************************************)
(* OpenJudgeEvaluator.evaluate: no threads, one judge call per             *)
(* (axis, descriptor) group of the rows that lack a judge output.          *)
(***************************************************************************)
OJScores == {"1", "5"}

\* f"Score: {score}\n\nFeedback: ```{feedback}```"
JudgeOutput(score) == Str(<<"Score:", score, "Feedback:", "text">>)

\* unevaluated_data = [row for row in data if not row.get(self.llm_response_col)]
Unevaluated(rows) == {i \in 1..Len(rows) : ~Truthy(Get(rows[i].llm_response))}

OpenJudgeBegin ==
    \E b \in workload.batches, t \in workload.tasks, r \in workload.resumes :
        /\ entry = "openjudge"
        /\ CanInvoke
        /\ StartRun(b, t, r)
        /\ IF b = <<>>
           THEN \* self.save_progress([], filename=save_fname); return []
                /\ pc' = "empty"
                /\ data' = <<>> /\ prompts' = <<>>
                /\ NoSubmit
                /\ disk' = SaveJson(<<>>)
           ELSE LET merged == ResumedData(b, disk, r)
                IN  /\ prompts' = <<>>
                    /\ data' = merged
                    /\ UNCHANGED disk
                    /\ IF merged = <<>> \/ t = NoTask
                       THEN pc' = "raised" /\ NoSubmit
                       ELSE /\ pc' = IF Unevaluated(merged) = {} THEN "done" ELSE "grading"
                            /\ fut' = [i \in 1..Len(merged) |->
                                         IF i \in Unevaluated(merged) THEN "queued" ELSE "ok"]
                            /\ attempt' = [i \in 1..Len(merged) |-> 0]
                            /\ outcome' = [i \in 1..Len(merged) |->
                                         IF i \in Unevaluated(merged) THEN "-" ELSE "skipped"]

\* SOCIAL_GROUP_FORMAT: the name of a social axis in the rubric; a KeyError
\* for an axis it does not hold.
SocialAxes == {"age", "gender", "gender_and_sex", "race", "race_ethnicity", "religion"}
SOCIAL_GROUP_FORMAT(axis) ==
    CASE axis = "age" -> "age"
      [] axis \in {"gender", "gender_and_sex"} -> "gender/sex"
      [] axis \in {"race", "race_ethnicity"} -> "racial/ethnic"
      [] axis = "religion" -> "religious"

\* prepare_rubric_string(task_to_rubric[task], social_axis=..., social_group=...)
\* and prepare_rubric_string(task_to_rubric["instruction_following"])
FairnessRubric(t, axis, group) == <<t, SOCIAL_GROUP_FORMAT(axis), group>>
RtaRubric == <<"instruction_following">>

\* The calls of self.judge.absolute_grade for one group: under a prompt
\* version other than 1 the instruction-following one comes first.
GradeCalls(version, t, axis, g, group) ==
    (IF version # 1 THEN <<[rubric |-> RtaRubric, rows |-> group]>> ELSE <<>>)
        \o <<[rubric |-> FairnessRubric(t, axis, g), rows |-> group]>>

\* Mutant: a group is all the rows of its social axis.
GroupRows_whole_axis(todo, rows, axis, g) == {i \in todo : rows[i].axis = axis}

\* social_group_data = [row for row in social_axis_data if row["descriptor"] == group]
GroupRows(todo, rows, axis, g) ==
    {i \in todo : rows[i].axis = axis /\ rows[i].descriptor = g}

\* perform_eval: the axes in the order of their first row, the groups of an
\* axis in any order; perform_eval_single_group grades the rows of one group,
\* or raises KeyError on an axis that SOCIAL_GROUP_FORMAT does not hold.
OpenJudgeGrade ==
    /\ pc = "grading"
    /\ Queued # {}
    /\ LET first == CHOOSE i \in Queued : \A j \in Queued : i <= j
           axis == data[first].axis
           version == workload.prompt_version
       IN  \E g \in {data[i].descriptor : i \in {j \in Queued : data[j].axis = axis}} :
             LET group == GroupRows(Queued, data, axis, g)
             IN  IF axis \notin SocialAxes
                 THEN /\ pc' = "raised"
                      /\ UNCHANGED <<data, fut, outcome, assigned, calls, graded>>
                 ELSE \E score \in [group -> OJScores],
                         rta_score \in [group -> IF version # 1 THEN OJScores ELSE {"-"}] :
                        /\ data' = [i \in Rows |->
                                      IF i \in group
                                      THEN [data[i] EXCEPT
                                              !.llm_response_rta =
                                                  IF version # 1 THEN JudgeOutput(rta_score[i])
                                                  ELSE @,
                                              !.llm_response = JudgeOutput(score[i])]
                                      ELSE data[i]]
                        /\ fut' = [i \in Rows |-> IF i \in group THEN "ok" ELSE fut[i]]
                        /\ outcome' = [i \in Rows |-> IF i \in group THEN "ok" ELSE outcome[i]]
                        /\ assigned' = assigned \cup group
                        /\ calls' = calls + Len(GradeCalls(version, task, axis, g, group))
                        /\ graded' = graded \o GradeCalls(version, task, axis, g, group)
                        /\ UNCHANGED pc
    /\ UNCHANGED <<aside, io, workload, max_worker, entry, run, task, resume, fresh, prompts,
                   disk, attempt, completed, idx, flushes, prev>>

\* self.save_progress(data, filename=save_fname); return data
OpenJudgeFinish ==
    /\ pc = "grading"
    /\ Queued = {}
    /\ disk' = SaveJson(data)
    /\ flushes' = [flushes EXCEPT !.last = "final"]
    /\ pc' = "done"
    /\ UNCHANGED <<aside, io, graded, workload, max_worker, entry, run, task, resume, fresh, data,
                   prompts, fut, attempt, completed, idx, outcome, assigned, calls, prev>>

(***************************************************************************)
(* Response Classifier: eval_utils.categorize_responses_from_prometheus.   *)
(* metric_utils (split_judge_output, did_judge_detect_refusal,             *)
(* categorize_judge_response) is modelled from its documented contract.    *)
(***************************************************************************)
\* The characters of a Python str, for the strings the classifier tests.
Spell(w) ==
    CASE w = "Valid" ->
           <<"V", "a", "l", "i", "d">>
      [] w = "Invalid" ->
           <<"I", "n", "v", "a", "l", "i", "d">>
      [] w = "Alignment" ->
           <<"A", "l", "i", "g", "n", "m", "e", "n", "t">>
      [] w = "Valid_Stereotype" ->
           <<"V", "a", "l", "i", "d", "_", "S", "t", "e", "r", "e", "o", "t", "y", "p", "e">>
      [] w = "Invalid_Alignment" ->
           <<"I", "n", "v", "a", "l", "i", "d", "_", "A", "l", "i", "g", "n", "m", "e", "n", "t">>
      [] w = "Invalid_Other" ->
           <<"I", "n", "v", "a", "l", "i", "d", "_", "O", "t", "h", "e", "r">>
      [] w = "Unknown" ->
           <<"U", "n", "k", "n", "o", "w", "n">>

\* pat in text, on Python strs: pat is a contiguous part of text.
InStr(pat, text) ==
    LET p == Spell(pat)
        t == Spell(text)
    IN  \E k \in 0..(Len(t) - Len(p)) : \A j \in 1..Len(p) : t[k + j] = p[j]

\* f"Score: {score}\n\nFeedback: ```{feedback}```"
JudgeText(score, feedback) == Str(<<"Score:", score, "Feedback:">> \o feedback)

\* metric_utils.split_judge_output(text): the score as a number, the feedback.
split_judge_output(v) ==
    <<CHOOSE n \in 1..5 : ToString(n) = v[2][2], SubSeq(v[2], 4, Len(v[2]))>>

\* metric_utils.did_judge_detect_refusal(feedback): refusal language occurs.
RefusalWords == {"cannot", "refuse", "unable"}
did_judge_detect_refusal(feedback) ==
    \E j \in 1..Len(feedback) : feedback[j] \in RefusalWords

\* metric_utils.categorize_judge_response(row): the category label embedded
\* in the feedback of the row's judge output.
categorize_judge_response(row) ==
    LET feedback == split_judge_output(row.eval_res)[2]
        at == CHOOSE j \in 1..Len(feedback) : feedback[j] = "Category:"
    IN  feedback[at + 1]

\* The feedbacks of a judge under the first prompt version, and the labels
\* of a judge under the later ones.
Feedbacks ==
    {<<"I", "cannot", "assist", "with", "that", "request">>,
     <<"The", "text", "is", "grammatically", "incoherent">>}
Labels == {"Valid_Stereotype", "Invalid_Alignment", "Invalid_Other", "Unknown"}

JudgeOutputsV1 == {JudgeText(sc, fb) : sc \in OJScores, fb \in Feedbacks}
JudgeOutputsV2 == {JudgeText("5", <<"Category:", lb>>) : lb \in Labels}

\* The judged batches of at most MaxRecords rows over a set of judge outputs.
JudgedBatches(outputs) ==
    UNION {{[j \in 1..n |-> [prompt |-> j, eval_res |-> f[j]]] : f \in [1..n -> outputs]}
             : n \in 0..MaxRecords}

NoCls ==
    [prompt_version |-> 0, data |-> <<>>, pos |-> 1,
     answered_data |-> <<>>, refused_data |-> <<>>, invalid_data |-> <<>>]

\* Mutant: the refusal test is inverted.
CategoryV1_swapped(score, feedback) ==
    IF score # 1 THEN "answered"
    ELSE IF did_judge_detect_refusal(feedback) THEN "invalid" ELSE "refused"

\* prompt_version == 1: the branch of a row with this score and feedback.
CategoryV1(score, feedback) ==
    IF score # 1 THEN "answered"
    ELSE IF did_judge_detect_refusal(feedback) THEN "refused" ELSE "invalid"

\* Mutant: every invalid label counts as a refusal.
CategoryV2_any_invalid(response_category) ==
    IF InStr("Valid", response_category) THEN "answered"
    ELSE IF InStr("Invalid", response_category) THEN "refused"
    ELSE "invalid"

\* Mutant: the last branch tests for an invalid label and there is no else.
CategoryV2_no_else(response_category) ==
    IF InStr("Valid", response_category) THEN "answered"
    ELSE IF InStr("Invalid", response_category) /\ InStr("Alignment", response_category)
         THEN "refused"
    ELSE IF InStr("Invalid", response_category) THEN "invalid"
    ELSE "dropped"

\* prompt_version != 1: the branch of a row with this category label.
CategoryV2(response_category) ==
    IF InStr("Valid", response_category) THEN "answered"
    ELSE IF InStr("Invalid", response_category) /\ InStr("Alignment", response_category)
         THEN "refused"
    ELSE "invalid"

\* One iteration of `for row in data`.
CategorizeRow ==
    /\ cls.pos <= Len(cls.data)
    /\ LET row == cls.data[cls.pos]
           sf == split_judge_output(row.eval_res)
           to == IF cls.prompt_version = 1 THEN CategoryV1(sf[1], sf[2])
                 ELSE CategoryV2(categorize_judge_response(row))
       IN  cls' = [cls EXCEPT
                     !.pos = @ + 1,
                     !.answered_data = IF to = "answered" THEN Append(@, row) ELSE @,
                     !.refused_data = IF to = "refused" THEN Append(@, row) ELSE @,
                     !.invalid_data = IF to = "invalid" THEN Append(@, row) ELSE @]
    /\ UNCHANGED <<pipeline, io, graded, rta, rub, cmp, flt>>

(***************************************************************************)
(* Refusal validation: eval_utils.validate_rta.                            *)
(***************************************************************************)
Bool(b) == <<"bool", b>>
IsBool(v) == v[1] = "bool"

\* str.lower() and str.upper(), token by token.
LowerToken(w) ==
    CASE w \in {"YES", "Yes", "yes"} -> "yes"
      [] w \in {"NO", "No", "no"} -> "no"
      [] w = "Answer:" -> "answer:"
      [] OTHER -> w
UpperToken(w) ==
    CASE w \in {"YES", "Yes", "yes"} -> "YES"
      [] w \in {"NO", "No", "no"} -> "NO"
      [] w = "Answer:" -> "ANSWER:"
      [] OTHER -> w
Lower(v) == Str([j \in 1..Len(v[2]) |-> LowerToken(v[2][j])])
Upper(v) == Str([j \in 1..Len(v[2]) |-> UpperToken(v[2][j])])

\* The values of the rta field the callers may pass.
RtaTexts ==
    {<<"YES">>, <<"NO">>, <<"Yes">>, <<"no">>, <<"Answer:", "NO">>, <<"maybe">>}
RtaValues ==
    {Missing, None, Bool(TRUE), Bool(FALSE)} \cup {Str(t) : t \in RtaTexts}
RtaBatches ==
    UNION {{[j \in 1..n |-> [prompt |-> j, rta |-> f[j]]] : f \in [1..n -> RtaValues]}
             : n \in 0..MaxRecords}

NoRta == [given |-> <<>>, data |-> <<>>, pos |-> 0, status |-> "idle"]

\* rta = extract_valid_choice(row["rta"], ["YES", "NO"]); if rta is None:
\* rta = extract_valid_choice(row["rta"].lower(), ["yes", "no"])
ExtractRta(v) ==
    LET first == ExtractValidChoice(v, List({"YES", "NO"}))
    IN  IF first # None THEN first
        ELSE ExtractValidChoice(Lower(v), List({"yes", "no"}))

\* Mutant: the extracted choice is compared as it is.
RtaAsBool_no_upper(choice) == Bool(choice = Str(<<"YES">>))

\* row["rta"] = rta.upper() == "YES"
RtaAsBool(choice) == Bool(Upper(choice) = Str(<<"YES">>))

\* assert all("rta" in row for row in data)
ValidateRtaBegin ==
    /\ rta.status = "called"
    /\ rta' = [rta EXCEPT
                 !.status = IF \E j \in 1..Len(rta.data) : rta.data[j].rta = Missing
                            THEN "raised" ELSE "loop",
                 !.pos = 1]
    /\ UNCHANGED <<pipeline, io, graded, cls, rub, cmp, flt>>

\* One iteration of `for row in data`.
ValidateRtaRow ==
    /\ rta.status = "loop"
    /\ rta.pos <= Len(rta.data)
    /\ LET v == rta.data[rta.pos].rta
       IN  IF IsBool(v)
           THEN \* continue
                rta' = [rta EXCEPT !.pos = @ + 1]
           ELSE IF ~IsStr(v) \/ ExtractRta(v) = None
           THEN \* assert isinstance(row["rta"], str); assert rta is not None
                rta' = [rta EXCEPT !.status = "raised"]
           ELSE rta' = [rta EXCEPT !.pos = @ + 1,
                                   !.data[rta.pos].rta = RtaAsBool(ExtractRta(v))]
    /\ UNCHANGED <<pipeline, io, graded, cls, rub, cmp, flt>>

\* return True
ValidateRtaReturn ==
    /\ rta.status = "loop"
    /\ rta.pos > Len(rta.data)
    /\ rta' = [rta EXCEPT !.status = "returned"]
    /\ UNCHANGED <<pipeline, io, graded, cls, rub, cmp, flt>>

(***************************************************************************)
(* Rubric Builder: judge_evaluator.prepare_rubric_string.                  *)
(* A template is a sequence of literal words and {placeholder} fields.     *)
(***************************************************************************)
Lit(w) == <<"lit", w>>
Field(k) == <<"field", k>>

\* The fields a template references.
FieldsOf(template) ==
    {template[j][2] : j \in {h \in 1..Len(template) : template[h][1] = "field"}}

\* template.format(**kwargs): KeyError when a field is not among kwargs,
\* otherwise the template with every field replaced by its value.
RECURSIVE Rendered(_, _)
Rendered(template, kwargs) ==
    IF template = <<>> THEN <<>>
    ELSE LET head == Head(template)
         IN  (IF head[1] = "field" THEN kwargs[head[2]] ELSE <<head[2]>>)
                \o Rendered(Tail(template), kwargs)
\* A text as a template without fields, and back.
AsLiteral(words) == [j \in 1..Len(words) |-> Lit(words[j])]
Words(template) == [j \in 1..Len(template) |-> template[j][2]]

Format(template, kwargs) ==
    IF FieldsOf(template) \subseteq DOMAIN kwargs
    THEN <<"ok", Rendered(template, kwargs)>>
    ELSE <<"KeyError">>

\* prometheus_eval.prompts.SCORE_RUBRIC_TEMPLATE: the criteria, then one
\* line per score.
RubricSections == <<"criteria", "score1_description", "score5_description">>
SCORE_RUBRIC_TEMPLATE ==
    <<Lit("["), Field("criteria"), Lit("]"),
      Lit("Score 1:"), Field("score1_description"),
      Lit("Score 5:"), Field("score5_description")>>

\* The section templates of the rubrics, and the keyword arguments of the
\* callers (perform_eval_single_group passes the social axis and group, or
\* nothing).
SectionTemplates ==
    {<<Lit("fair")>>,
     <<Lit("about"), Field("social_group")>>,
     <<Lit("on"), Field("social_axis"), Lit("of"), Field("social_group")>>}
Rubrics == [{RubricSections[j] : j \in 1..Len(RubricSections)} -> SectionTemplates]
Formatters ==
    {[k \in {} |-> <<>>],
     [social_group |-> <<"women">>],
     [social_axis |-> <<"gender">>, social_group |-> <<"women">>],
     [social_axis |-> <<"age">>, social_group |-> <<"old">>, extra |-> <<"x">>]}

NoRub ==
    [given |-> <<>>, rubric_data |-> <<>>, str_formatters |-> <<>>, copy |-> <<>>,
     at |-> 0, status |-> "idle", score_rubric |-> <<>>]

\* Mutant: the function works on the caller's dict.
CallerRubric_aliased(caller, local) == local

\* rubric_data = rubric_data.copy(): the caller's dict after an assignment
\* to an item of the local one.
CallerRubric(caller, local) == caller

\* rubric_data = rubric_data.copy()
RubricBegin ==
    /\ rub.status = "called"
    /\ rub' = [rub EXCEPT !.status = "loop", !.at = 1, !.copy = rub.rubric_data]
    /\ UNCHANGED <<pipeline, io, graded, cls, rta, cmp, flt>>

\* One iteration of `for key, description in rubric_data.items()`.
RubricSection ==
    /\ rub.status = "loop"
    /\ rub.at <= Len(RubricSections)
    /\ LET key == RubricSections[rub.at]
           out == Format(rub.copy[key], rub.str_formatters)
       IN  IF out[1] = "KeyError"
           THEN rub' = [rub EXCEPT !.status = "raised"]
           ELSE LET local == [rub.copy EXCEPT ![key] = AsLiteral(out[2])]
                IN  rub' = [rub EXCEPT !.at = @ + 1,
                                       !.copy = local,
                                       !.rubric_data = CallerRubric(@, local)]
    /\ UNCHANGED <<pipeline, io, graded, cls, rta, cmp, flt>>

\* score_rubric = SCORE_RUBRIC_TEMPLATE.format(**rubric_data); return
RubricReturn ==
    /\ rub.status = "loop"
    /\ rub.at > Len(RubricSections)
    /\ LET values == [k \in DOMAIN rub.copy |-> Words(rub.copy[k])]
           out == Format(SCORE_RUBRIC_TEMPLATE, values)
       IN  rub' = [rub EXCEPT !.status = IF out[1] = "ok" THEN "returned" ELSE "raised",
                              !.score_rubric = IF out[1] = "ok" THEN out[2] ELSE <<>>]
    /\ UNCHANGED <<pipeline, io, graded, cls, rta, cmp, flt>>

(***************************************************************************)
(* Prompt Compiler called on its own: prepare_llm_eval_prompts.            *)
(***************************************************************************)
\* Rows as dicts from column names to texts: a complete row, a row without
\* the column res_wo_prefix, a row whose prompt text is a placeholder token,
\* and a row without the response columns.
CompileRows ==
    {[prompt |-> Str(<<"P1">>), response |-> Str(<<"R1">>), res |-> Str(<<"R1">>),
      res_wo_prefix |-> Str(<<"W1">>), sub_text |-> Str(<<"S1">>)],
     [prompt |-> Str(<<"P2">>), response |-> Str(<<"R2">>), res |-> Str(<<"R2">>)],
     [prompt |-> Str(<<"{response}">>), response |-> Str(<<"R3">>), res |-> Str(<<"R3">>),
      res_wo_prefix |-> Str(<<"W3">>), sub_text |-> Str(<<"{response}">>)],
     [prompt |-> Str(<<"P4">>), res_wo_prefix |-> Str(<<"W4">>)]}
CompileBatches == UNION {[1..n -> CompileRows] : n \in 0..MaxRecords}
CompileTasks == {"unregistered", "choice"} \cup MappedTasks
InputCols == {"res", "res_wo_prefix"}

NoCmp ==
    [task |-> NoTask, data |-> <<>>, llm_input_col |-> "res",
     status |-> "idle", prompts |-> <<>>]

\* prepare_llm_eval_prompts(data, task, llm_input_col) returns or raises.
CompilePrompts ==
    /\ cmp.status = "called"
    /\ LET out == prepare_llm_eval_prompts(cmp.data, cmp.task, cmp.llm_input_col)
       IN  cmp' = [cmp EXCEPT !.status = IF out[1] = "ok" THEN "returned" ELSE out[1],
                              !.prompts = IF out[1] = "ok" THEN out[2] ELSE <<>>]
    /\ UNCHANGED <<pipeline, io, graded, cls, rta, rub, flt>>

(***************************************************************************)
(* Filter: eval_utils.filter_data_by_kwargs(data, filter_kwargs).          *)
(***************************************************************************)
\* A dict, as the pairs of its items() in their order.
Dict(pairs) == <<"dict", pairs>>

\* row.get(key)
RowGet(row, key) == IF HasCol(row, key) THEN row[key] ELSE None

\* not filter_kwargs: None, an empty dict, an empty str.
Falsy(filter_kwargs) ==
    filter_kwargs = None \/ filter_kwargs = Dict(<<>>) \/ filter_kwargs = Str(<<>>)

\* The literal a token of the text stands for.
Literal(tok) ==
    CASE tok = "True" -> Bool(TRUE)
      [] tok = "False" -> Bool(FALSE)
      [] tok = "'True'" -> Str(<<"True">>)
      [] tok = "'age'" -> Str(<<"age">>)
      [] OTHER -> None

\* ast.literal_eval(filter_kwargs) on the text of a dict of at most one
\* item, "{}" or "{'key': value}"; any other text raises.
LiteralEval(text) ==
    IF text = <<"{", "}">> THEN <<"ok", Dict(<<>>)>>
    ELSE IF Len(text) = 5 /\ text[1] = "{" /\ text[3] = ":" /\ text[5] = "}"
              /\ Literal(text[4]) # None
         THEN <<"ok", Dict(<<<<text[2], Literal(text[4])>>>>)>>
    ELSE <<"raise">>

\* Parse boolean strings: "False" and "True" stand for the booleans.
ParseBool(value) ==
    IF value = Str(<<"False">>) THEN Bool(FALSE)
    ELSE IF value = Str(<<"True">>) THEN Bool(TRUE)
    ELSE value

\* The rows the metrics are computed on, tagged as harmful or not, and some
\* of them without the tag.
FilterRows ==
    {[prompt |-> 0, is_harmful |-> h, axis |-> Str(<<a>>)] :
        h \in {Bool(TRUE), Bool(FALSE), Missing}, a \in {"age", "gender"}}
FilterBatches ==
    UNION {{[j \in 1..n |-> [f[j] EXCEPT !.prompt = j]] : f \in [1..n -> FilterRows]}
             : n \in 0..MaxRecords}

\* The filters a caller passes: none, an empty one, one key, the same as a
\* boolean string, two keys, the text of a dict, a text that is no literal.
FilterKwargs ==
    {None, Dict(<<>>),
     Dict(<<<<"is_harmful", Bool(TRUE)>>>>),
     Dict(<<<<"is_harmful", Str(<<"False">>)>>>>),
     Dict(<<<<"is_harmful", Bool(TRUE)>>, <<"axis", Str(<<"age">>)>>>>),
     Str(<<"{", "is_harmful", ":", "True", "}">>),
     Str(<<"{", "}">>),
     Str(<<"is_harmful", "=", "True">>)}

NoFlt ==
    [filter_kwargs |-> None, data |-> <<>>, status |-> "idle", items |-> <<>>,
     row |-> 1, item |-> 1, filtered_rows |-> <<>>, returned |-> <<>>]

\* The call up to the loop: the early return, the parsing of a str filter.
FilterBegin ==
    /\ flt.status = "called"
    /\ IF Falsy(flt.filter_kwargs)
       THEN \* if not filter_kwargs: return data
            flt' = [flt EXCEPT !.status = "returned", !.returned = flt.data]
       ELSE IF IsStr(flt.filter_kwargs)
       THEN LET parsed == LiteralEval(flt.filter_kwargs[2])
            IN  IF parsed[1] = "ok"
                THEN flt' = [flt EXCEPT !.status = "loop", !.items = parsed[2][2]]
                ELSE flt' = [flt EXCEPT !.status = "RuntimeError"]
       ELSE flt' = [flt EXCEPT !.status = "loop", !.items = flt.filter_kwargs[2]]
    /\ UNCHANGED <<pipeline, io, graded, cls, rta, rub, cmp>>

\* One iteration of `for key, value in filter_kwargs.items()` for the
\* current row; a filter without items has none, and the row is passed over.
FilterItem ==
    /\ flt.status = "loop"
    /\ flt.row <= Len(flt.data)
    /\ IF flt.items = <<>>
       THEN flt' = [flt EXCEPT !.row = @ + 1]
       ELSE LET row == flt.data[flt.row]
                key == flt.items[flt.item][1]
                value == ParseBool(flt.items[flt.item][2])
                last == flt.item = Len(flt.items)
            IN  flt' = [flt EXCEPT
                          !.filtered_rows =
                              IF RowGet(row, key) = value THEN Append(@, row) ELSE @,
                          !.item = IF last THEN 1 ELSE @ + 1,
                          !.row = IF last THEN @ + 1 ELSE @]
    /\ UNCHANGED <<pipeline, io, graded, cls, rta, rub, cmp>>

\* return filtered_rows
FilterReturn ==
    /\ flt.status = "loop"
    /\ flt.row > Len(flt.data)
    /\ flt' = [flt EXCEPT !.status = "returned", !.returned = flt.filtered_rows]
    /\ UNCHANGED <<pipeline, io, graded, cls, rta, rub, cmp>>

(***************************************************************************)
(* Specifications.                                                         *)
(***************************************************************************)
Outcomes == {"fail", "choice", "junk"}

Quiet ==
    /\ run = 0 /\ task = NoTask /\ resume = FALSE
    /\ fresh = <<>> /\ data = <<>> /\ prompts = <<>>
    /\ disk = NoFile
    /\ pc = "idle"
    /\ fut = <<>> /\ attempt = <<>> /\ outcome = <<>>
    /\ completed = <<>> /\ idx = 0
    /\ assigned = {} /\ calls = 0
    /\ flushes = NoFlushes
    /\ prev = NoPrev
    /\ lock = "free" /\ writers = {}
    /\ graded = <<>>

\* No helper function has been called.
NoAside == cls = NoCls /\ rta = NoRta /\ rub = NoRub /\ cmp = NoCmp /\ flt = NoFlt

\* Small batches, every task, an unreliable judge, consecutive invocations.
Init ==
    /\ workload = [batches |-> SmallBatches, tasks |-> Tasks, resumes |-> BOOLEAN,
                   outcomes |-> Outcomes, runs |-> MaxRuns, repeat |-> FALSE, judge |-> <<>>, prompt_version |-> JUDGE_PROMPT_VER]
    /\ max_worker = MaxWorker
    /\ entry \in {"evaluate", "infer", "openjudge"}
    /\ Quiet
    /\ NoAside

Next ==
    \/ EvaluateBegin
    \/ InferBegin
    \/ \E i \in DOMAIN fut : WorkerStart(i)
    \/ \E i \in DOMAIN fut : WorkerAttempt(i)
    \/ \E i \in DOMAIN fut : WorkerWrite(i)
    \/ DispatchNext
    \/ Finish
    \/ OpenJudgeBegin
    \/ OpenJudgeGrade
    \/ OpenJudgeFinish

Spec == Init /\ [][Next]_vars

\* The cadence workload: one infer call on CadenceRecords records, a judge
\* that always answers.
InitCadence ==
    /\ workload = [batches |-> {CadenceBatch}, tasks |-> {NoTask}, resumes |-> BOOLEAN,
                   outcomes |-> {"choice"}, runs |-> 1, repeat |-> FALSE, judge |-> <<>>, prompt_version |-> JUDGE_PROMPT_VER]
    /\ max_worker = CadenceWorkers
    /\ entry = "infer"
    /\ Quiet
    /\ NoAside

NextCadence ==
    \/ InferBegin
    \/ \E i \in DOMAIN fut : WorkerStart(i)
    \/ \E i \in DOMAIN fut : WorkerAttempt(i)
    \/ DispatchNext
    \/ Finish

SpecCadence == InitCadence /\ [][NextCadence]_vars

\* The resume workload: the caller goes on invoking evaluate with resume=True
\* on batches whose records all have an input text; the judge is unreliable,
\* but a call that is repeated often enough succeeds.
InitResume ==
    /\ workload = [batches |-> {BatchOf(1..MaxRecords), BatchOf(2..MaxRecords)},
                   tasks |-> {"unregistered", "choice"}, resumes |-> {TRUE},
                   outcomes |-> Outcomes, runs |-> MaxRuns, repeat |-> TRUE, judge |-> <<>>, prompt_version |-> JUDGE_PROMPT_VER]
    /\ max_worker = MaxWorker
    /\ entry = "evaluate"
    /\ Quiet
    /\ NoAside

NextResume ==
    \/ EvaluateBegin
    \/ \E i \in DOMAIN fut : WorkerStart(i)
    \/ \E i \in DOMAIN fut : WorkerAttempt(i)
    \/ \E i \in DOMAIN fut : WorkerWrite(i)
    \/ DispatchNext
    \/ Finish

\* An attempt of row i's judge call whose answer process_row accepts.
AttemptSucceeds(i) ==
    /\ i \in DOMAIN fut
    /\ WorkerAttempt(i)
    /\ fut'[i] = "wrote_full" \/ outcome'[i] = "ok"

\* Every thread and the caller keep going; a judge call that is made again
\* and again eventually succeeds.
FairResume ==
    /\ WF_vars(EvaluateBegin)
    /\ WF_vars(DispatchNext)
    /\ WF_vars(Finish)
    /\ \A i \in 1..MaxRecords :
          /\ WF_vars(i \in DOMAIN fut /\ WorkerStart(i))
          /\ WF_vars(i \in DOMAIN fut /\ WorkerWrite(i))
          /\ SF_vars(AttemptSucceeds(i))

SpecResume == InitResume /\ [][NextResume]_vars /\ FairResume

\* The classifier on every judged batch, under the first and a later prompt
\* version (JUDGE_PROMPT_VER defaults to 4).
InitClassify ==
    /\ workload = [batches |-> {}, tasks |-> {}, resumes |-> {},
                   outcomes |-> {}, runs |-> 0, repeat |-> FALSE, judge |-> <<>>, prompt_version |-> JUDGE_PROMPT_VER]
    /\ max_worker = MaxWorker
    /\ entry = "classify"
    /\ Quiet
    /\ \E v \in {1, 4} :
          \E rows \in JudgedBatches(IF v = 1 THEN JudgeOutputsV1 ELSE JudgeOutputsV2) :
             cls = [NoCls EXCEPT !.prompt_version = v, !.data = rows]
    /\ rta = NoRta /\ rub = NoRub /\ cmp = NoCmp /\ flt = NoFlt

NextClassify == CategorizeRow

SpecClassify == InitClassify /\ [][NextClassify]_vars

\* validate_rta on every batch of rows with an rta field.
InitRta ==
    /\ workload = [batches |-> {}, tasks |-> {}, resumes |-> {},
                   outcomes |-> {}, runs |-> 0, repeat |-> FALSE, judge |-> <<>>, prompt_version |-> JUDGE_PROMPT_VER]
    /\ max_worker = MaxWorker
    /\ entry = "validate_rta"
    /\ Quiet
    /\ \E rows \in RtaBatches :
          rta = [given |-> rows, data |-> rows, pos |-> 0, status |-> "called"]
    /\ cls = NoCls /\ rub = NoRub /\ cmp = NoCmp /\ flt = NoFlt

NextRta ==
    \/ ValidateRtaBegin
    \/ ValidateRtaRow
    \/ ValidateRtaReturn

SpecRta == InitRta /\ [][NextRta]_vars

\* prepare_rubric_string on every rubric and every set of keyword arguments.
InitRubric ==
    /\ workload = [batches |-> {}, tasks |-> {}, resumes |-> {},
                   outcomes |-> {}, runs |-> 0, repeat |-> FALSE, judge |-> <<>>, prompt_version |-> JUDGE_PROMPT_VER]
    /\ max_worker = MaxWorker
    /\ entry = "prepare_rubric_string"
    /\ Quiet
    /\ \E r \in Rubrics, kw \in Formatters :
          rub = [NoRub EXCEPT !.given = r, !.rubric_data = r, !.str_formatters = kw,
                              !.status = "called"]
    /\ cls = NoCls /\ rta = NoRta /\ cmp = NoCmp /\ flt = NoFlt

NextRubric ==
    \/ RubricBegin
    \/ RubricSection
    \/ RubricReturn

SpecRubric == InitRubric /\ [][NextRubric]_vars

\* prepare_llm_eval_prompts on every batch, task and input column.
InitCompile ==
    /\ workload = [batches |-> {}, tasks |-> {}, resumes |-> {},
                   outcomes |-> {}, runs |-> 0, repeat |-> FALSE, judge |-> <<>>, prompt_version |-> JUDGE_PROMPT_VER]
    /\ max_worker = MaxWorker
    /\ entry = "prepare_llm_eval_prompts"
    /\ Quiet
    /\ \E rows \in CompileBatches, t \in CompileTasks, c \in InputCols :
          cmp = [NoCmp EXCEPT !.task = t, !.data = rows, !.llm_input_col = c,
                              !.status = "called"]
    /\ cls = NoCls /\ rta = NoRta /\ rub = NoRub /\ flt = NoFlt

NextCompile == CompilePrompts

SpecCompile == InitCompile /\ [][NextCompile]_vars

\* evaluate under the tasks with a substitution mapping: qa_res reads the
\* input column of the rows, qa_sub a column the rows do not have.
InitMapped ==
    /\ workload = [batches |-> SmallBatches, tasks |-> {"qa_res", "qa_sub"},
                   resumes |-> BOOLEAN, outcomes |-> Outcomes,
                   runs |-> MaxRuns, repeat |-> FALSE, judge |-> <<>>, prompt_version |-> JUDGE_PROMPT_VER]
    /\ max_worker = MaxWorker
    /\ entry = "evaluate"
    /\ Quiet
    /\ NoAside

NextMapped ==
    \/ EvaluateBegin
    \/ \E i \in DOMAIN fut : WorkerStart(i)
    \/ \E i \in DOMAIN fut : WorkerAttempt(i)
    \/ DispatchNext
    \/ Finish

SpecMapped == InitMapped /\ [][NextMapped]_vars

\* The fresh batch, and a batch the caller passes with judge outputs in it:
\* an accepted choice in the second record, another text in the last one.
OrderBatches ==
    {BatchOf(1..MaxRecords),
     [BatchOf(1..MaxRecords) EXCEPT ![2].llm_response = Str(<<"YES">>),
                                    ![MaxRecords].llm_response = Str(<<"unsure">>)]}

\* The payloads of these batches under the task.
Payloads(t) ==
    UNION {{prepare_llm_eval_prompts(b, t, "llm_input")[2][i] : i \in 1..Len(b)}
             : b \in OrderBatches}

\* evaluate under one task, with a judge whose answer is a function of the
\* payload; the threads of the pool finish in any order.
InitOrder ==
    /\ \E t \in {"unregistered", "choice"} :
          \E j \in [Payloads(t) -> Outcomes] :
             workload = [batches |-> OrderBatches, tasks |-> {t}, resumes |-> BOOLEAN,
                         outcomes |-> Outcomes, runs |-> MaxRuns, repeat |-> FALSE,
                         judge |-> j, prompt_version |-> JUDGE_PROMPT_VER]
    /\ max_worker = MaxWorker
    /\ entry = "evaluate"
    /\ Quiet
    /\ NoAside

NextOrder ==
    \/ EvaluateBegin
    \/ \E i \in DOMAIN fut : WorkerStart(i)
    \/ \E i \in DOMAIN fut : WorkerAttempt(i)
    \/ \E i \in DOMAIN fut : WorkerWrite(i)
    \/ DispatchNext
    \/ Finish

SpecOrder == InitOrder /\ [][NextOrder]_vars

\* evaluate with the writes of the checkpoint file taking time.
InitFlush ==
    /\ workload = [batches |-> {BatchOf(1..MaxRecords)}, tasks |-> {"unregistered", "choice"},
                   resumes |-> BOOLEAN, outcomes |-> Outcomes,
                   runs |-> MaxRuns, repeat |-> FALSE, judge |-> <<>>, prompt_version |-> JUDGE_PROMPT_VER]
    /\ max_worker = MaxWorker
    /\ entry = "evaluate"
    /\ Quiet
    /\ NoAside

NextFlush ==
    \/ EvaluateBegin
    \/ \E i \in DOMAIN fut : WorkerStart(i)
    \/ \E i \in DOMAIN fut : WorkerAttempt(i)
    \/ \E i \in DOMAIN fut : WorkerWrite(i)
    \/ TakeNext
    \/ CallbackFlushEnd
    \/ PeriodicCheck
    \/ PeriodicFlushEnd
    \/ FinalFlushBegin
    \/ FinalFlushEnd

SpecFlush == InitFlush /\ [][NextFlush]_vars

\* evaluate on every non-empty batch, one of them with a record whose payload
\* is empty under the task without prompt (every attempt of its call raises),
\* with an unreliable judge; every thread that can take a step eventually
\* takes one, so every attempt of a judge call eventually returns or raises.
InitTerminate ==
    /\ workload = [batches |-> SmallBatches \ {<<>>}, tasks |-> {"unregistered", "choice"},
                   resumes |-> BOOLEAN, outcomes |-> Outcomes,
                   runs |-> MaxRuns, repeat |-> FALSE, judge |-> <<>>, prompt_version |-> JUDGE_PROMPT_VER]
    /\ max_worker = MaxWorker
    /\ entry = "evaluate"
    /\ Quiet
    /\ NoAside

NextTerminate ==
    \/ EvaluateBegin
    \/ \E i \in DOMAIN fut : WorkerStart(i)
    \/ \E i \in DOMAIN fut : WorkerAttempt(i)
    \/ \E i \in DOMAIN fut : WorkerWrite(i)
    \/ DispatchNext
    \/ Finish

FairTerminate ==
    /\ WF_vars(DispatchNext)
    /\ WF_vars(Finish)
    /\ \A i \in 1..MaxRecords :
          /\ WF_vars(i \in DOMAIN fut /\ WorkerStart(i))
          /\ WF_vars(i \in DOMAIN fut /\ WorkerAttempt(i))
          /\ WF_vars(i \in DOMAIN fut /\ WorkerWrite(i))

SpecTerminate == InitTerminate /\ [][NextTerminate]_vars /\ FairTerminate

\* The batches of the open judge: the fresh batch; a batch with a judge output
\* in the second record and two groups of one axis; a batch whose last record
\* is of an axis that SOCIAL_GROUP_FORMAT does not hold.
OpenJudgeBatches ==
    {BatchOf(1..MaxRecords),
     [BatchOf(1..MaxRecords) EXCEPT ![2].llm_response = JudgeOutput("5"),
                                    ![MaxRecords].descriptor = "young"],
     [BatchOf(1..MaxRecords) EXCEPT ![MaxRecords].axis = "nationality"]}

\* OpenJudgeEvaluator.evaluate under the first and the default prompt version.
InitOpenJudge ==
    /\ \E v \in {1, JUDGE_PROMPT_VER} :
          workload = [batches |-> OpenJudgeBatches, tasks |-> {"choice"},
                      resumes |-> BOOLEAN, outcomes |-> {}, runs |-> MaxRuns,
                      repeat |-> FALSE, judge |-> <<>>, prompt_version |-> v]
    /\ max_worker = MaxWorker
    /\ entry = "openjudge"
    /\ Quiet
    /\ NoAside

NextOpenJudge ==
    \/ OpenJudgeBegin
    \/ OpenJudgeGrade
    \/ OpenJudgeFinish

SpecOpenJudge == InitOpenJudge /\ [][NextOpenJudge]_vars


\* The batches of a caller whose checkpoint holds some of the keys of its
\* next batch, or holds them in another order: every key, every key but the
\* first, and every key in decreasing order.
PairingBatches ==
    {BatchOf(1..MaxRecords), BatchOf(2..MaxRecords),
     [i \in 1..MaxRecords |-> BatchOf(1..MaxRecords)[MaxRecords + 1 - i]]}

\* The payload compiled from a record under the entry point and the task.
OwnPayload(row, e, t) ==
    IF e = "infer" THEN row.llm_input[2] ELSE SinglePrompt(row, t, "llm_input")[2]

\* evaluate and infer on consecutive batches with the resume flag, the judge
\* answering as a function of the payload.
InitPairing ==
    /\ entry \in {"evaluate", "infer"}
    /\ \E j \in [{OwnPayload(FreshRow(k, InputText(k)), entry, "choice") : k \in 1..MaxRecords}
                    -> Outcomes] :
          workload = [batches |-> PairingBatches, tasks |-> {"choice"}, resumes |-> BOOLEAN,
                      outcomes |-> Outcomes, runs |-> MaxRuns, repeat |-> FALSE,
                      judge |-> j, prompt_version |-> JUDGE_PROMPT_VER]
    /\ max_worker = MaxWorker
    /\ Quiet
    /\ NoAside

NextPairing ==
    \/ EvaluateBegin
    \/ InferBegin
    \/ \E i \in DOMAIN fut : WorkerStart(i)
    \/ \E i \in DOMAIN fut : WorkerAttempt(i)
    \/ \E i \in DOMAIN fut : WorkerWrite(i)
    \/ DispatchNext
    \/ Finish

SpecPairing == InitPairing /\ [][NextPairing]_vars


\* filter_data_by_kwargs on every batch of tagged rows and every filter.
InitFilter ==
    /\ workload = [batches |-> {}, tasks |-> {}, resumes |-> {},
                   outcomes |-> {}, runs |-> 0, repeat |-> FALSE, judge |-> <<>>,
                   prompt_version |-> JUDGE_PROMPT_VER]
    /\ max_worker = MaxWorker
    /\ entry = "filter_data_by_kwargs"
    /\ Quiet
    /\ \E rows \in FilterBatches, kw \in FilterKwargs :
          flt = [NoFlt EXCEPT !.filter_kwargs = kw, !.data = rows, !.status = "called"]
    /\ cls = NoCls /\ rta = NoRta /\ rub = NoRub /\ cmp = NoCmp

NextFilter ==
    \/ FilterBegin
    \/ FilterItem
    \/ FilterReturn

SpecFilter == InitFilter /\ [][NextFilter]_vars


(***************************************************************************)
(* Properties.                                                             *)
(***************************************************************************)
Raisers == {i \in DOMAIN fut : fut[i] = "exc"}
TerminalFailures == {i \in DOMAIN outcome : outcome[i] \in {"api_fail", "retry_error"}}
Dispatching == entry \in {"evaluate", "infer"}

\* Row i of the batch is in the checkpoint file as it is in memory.
Persisted(i) == disk.exists /\ i <= Len(disk.rows) /\ disk.rows[i] = data[i]

\* The current run resumes the batch and the task that the previous run
\* judged completely.
SameBatchResumed ==
    /\ entry = "evaluate" /\ run >= 2 /\ resume
    /\ pc \in {"loop", "done"}
    /\ prev.judged /\ fresh = prev.fresh /\ task = prev.task

\* C1 Resume idempotence: when evaluate has judged every record of a batch
\* and persisted it, evaluate called again with resume=True on the same batch
\* never invokes openai_chat_completion and returns the same batch.
C1_ResumeIdempotence ==
    SameBatchResumed => calls = 0 /\ (pc = "done" => data = prev.data)

C1_Witness == SameBatchResumed /\ pc = "done" /\ N = MaxRecords

\* C2 Isolation: an exception of a worker never leaves evaluate (the run only
\* ends raising before the dispatch); every future settles, and when exactly
\* one record's judge call fails, by its worker raising, every other record
\* has its judge output, in memory and in the checkpoint file at the return.
C2_Isolation ==
    entry = "evaluate" =>
        /\ pc = "raised" => fut = <<>>
        /\ pc = "done" =>
             /\ \A i \in Rows : fut[i] \in Settled
             /\ (/\ Cardinality(Raisers) = 1
                 /\ \A j \in Rows \ Raisers : outcome[j] \in {"ok", "skipped"})
                => \A j \in Rows \ Raisers :
                      Truthy(Get(data[j].llm_response)) /\ Persisted(j)

C2_Witness ==
    /\ entry = "evaluate" /\ pc = "done" /\ N = MaxRecords
    /\ Cardinality(Raisers) = 1
    /\ \A j \in Rows \ Raisers : outcome[j] = "ok"

\* C3 Failure flush (as claimed): at the end of the run every judge call that
\* ended in terminal failure has triggered a flush of the batch, in which the
\* failing record's judge output was unset.
C3_FailureFlush ==
    (Dispatching /\ pc = "done") =>
        \A i \in TerminalFailures :
            i \in flushes.on_failure /\ i \in flushes.unset_then

\* C4 Final flush: when evaluate or infer returns a non-empty batch, every
\* submitted call has settled, the last write of the run is the save after
\* the loop, and the checkpoint file holds exactly the batch returned.
C4_FinalFlush ==
    (Dispatching /\ pc = "done") =>
        /\ \A i \in Rows : fut[i] \in Settled
        /\ flushes.last = "final"
        /\ disk = SaveJson(data)

C4_Witness ==
    /\ Dispatching /\ pc = "done" /\ N = MaxRecords
    /\ Cardinality(assigned) >= 2

\* Records whose call has finished and that the checkpoint file lacks.
CompletedUnflushed == {i \in Rows : fut[i] \in Settled /\ ~Persisted(i)}

\* ... among them, those the dispatcher has already taken from as_completed.
YieldedUnflushed ==
    {i \in CompletedUnflushed : \A j \in 1..Len(completed) : completed[j] # i}

C6_ConcurrencyBound == Cardinality(InFlight) <= max_worker

C6_Witness == Cardinality(InFlight) = max_worker /\ Queued # {} /\ Dispatching

\* C7 Retry before failure (as claimed): a judge call is given up as failed
\* only after STOP_AFTER_ATTEMPT attempts.
C7_RetryBeforeFailure ==
    Dispatching =>
        \A i \in TerminalFailures : attempt[i] = STOP_AFTER_ATTEMPT

\* C8 (as claimed): a worker assigns the judge-output field of a record only
\* when the record's judge call succeeded.
C8_WriteOnlyOnSuccess ==
    Dispatching => \A i \in assigned : outcome[i] = "ok"

JustMerged ==
    /\ entry = "evaluate" /\ resume /\ pc = "loop"
    /\ \A i \in Rows : fut[i] = "queued"

InCheckpoint(k) == {j \in 1..Len(disk.rows) : disk.exists /\ disk.rows[j].prompt = k}

\* C10 Merge union: after the merge the batch has the records of the fresh
\* batch, in its order; a record whose key the checkpoint holds with a
\* populated judge output has the checkpoint's judge output; a record whose
\* key the checkpoint lacks is the fresh record, unjudged.
C10_MergeUnion ==
    JustMerged =>
        /\ Len(data) = Len(fresh)
        /\ \A i \in Rows :
             /\ data[i].prompt = fresh[i].prompt
             /\ \A j \in InCheckpoint(fresh[i].prompt) :
                   Truthy(Get(disk.rows[j].llm_response))
                      => data[i].llm_response = disk.rows[j].llm_response
             /\ InCheckpoint(fresh[i].prompt) = {}
                   => data[i] = fresh[i] /\ data[i].llm_response = Missing

C10_Witness ==
    /\ JustMerged
    /\ \E i \in Rows : InCheckpoint(fresh[i].prompt) = {}
    /\ \E i \in Rows : \E j \in InCheckpoint(fresh[i].prompt) :
          j # i /\ Truthy(Get(disk.rows[j].llm_response))

\* The current run resumes, under the same task, after a run that returned.
ResumedAfterReturn ==
    /\ entry = "evaluate" /\ run >= 2 /\ resume
    /\ pc \in {"loop", "done"}
    /\ prev.data # <<>> /\ task = prev.task

\* Row i has been taken by a worker.
Taken(i) == fut[i] # "queued"

\* A record the previous run left unjudged is sent to the judge again; a
\* record the previous run judged is not.
C11_Redispatch ==
    ResumedAfterReturn =>
        \A i \in Rows :
            Taken(i) =>
                /\ data[i].prompt \in prev.failed => outcome[i] # "skipped"
                /\ data[i].prompt \in prev.ok => outcome[i] = "skipped" /\ fut[i] = "ok"

AllJudged ==
    /\ pc = "done" /\ N > 0
    /\ \A i \in Rows : outcome[i] \in {"ok", "skipped"} /\ Truthy(Get(data[i].llm_response))

\* C11 Resumability: under resume=True a record that the previous evaluate
\* left unjudged is dispatched to the judge again and a record it judged is
\* not; when every judge call eventually succeeds, repeated resumed
\* invocations eventually return with every record judged.
C11_Resumability == [](C11_Redispatch) /\ <>AllJudged

C11_Witness ==
    /\ ResumedAfterReturn /\ pc = "done"
    /\ \E i \in Rows : data[i].prompt \in prev.failed /\ outcome[i] = "ok"
    /\ \E i \in Rows : data[i].prompt \in prev.ok /\ outcome[i] = "skipped"

\* The lists of the classifier that hold the row.
Buckets(row) ==
    {b \in {"answered", "refused", "invalid"} :
        LET list == CASE b = "answered" -> cls.answered_data
                      [] b = "refused" -> cls.refused_data
                      [] OTHER -> cls.invalid_data
        IN  \E j \in 1..Len(list) : list[j] = row}

\* The rows the loop of the classifier has gone through.
Classified == {cls.data[j] : j \in 1..(cls.pos - 1)}

\* C12 Classifier policy v1: under prompt version 1 a row whose score is not
\* 1 is answered; a row of score 1 is refused when its feedback has refusal
\* language and invalid otherwise.  (1, "I cannot assist with that request")
\* is refused, (1, "The text is grammatically incoherent") is invalid,
\* (5, anything) is answered.
C12_PolicyV1 ==
    cls.prompt_version = 1 =>
        \A row \in Classified :
            LET score == row.eval_res[2][2]
                feedback == SubSeq(row.eval_res[2], 4, Len(row.eval_res[2]))
            IN  /\ score # "1" => Buckets(row) = {"answered"}
                /\ (score = "1" /\ \E j \in 1..Len(feedback) : feedback[j] \in RefusalWords)
                      => Buckets(row) = {"refused"}
                /\ (score = "1" /\ \A j \in 1..Len(feedback) : feedback[j] \notin RefusalWords)
                      => Buckets(row) = {"invalid"}
                /\ (score = "1" /\ feedback = <<"I", "cannot", "assist", "with", "that", "request">>)
                      => Buckets(row) = {"refused"}
                /\ (score = "1" /\ feedback = <<"The", "text", "is", "grammatically", "incoherent">>)
                      => Buckets(row) = {"invalid"}

C12_Witness ==
    /\ cls.prompt_version = 1 /\ cls.pos > Len(cls.data)
    /\ Len(cls.answered_data) = 1 /\ Len(cls.refused_data) = 1 /\ Len(cls.invalid_data) = 1

\* The category label of a row of a later prompt version.
LabelOf(row) == row.eval_res[2][Len(row.eval_res[2])]

\* C13 Classifier policy v2+: under a prompt version other than 1 a row
\* labelled "Valid_Stereotype" is answered, a row labelled
\* "Invalid_Alignment" is refused, and a row with another label
\* ("Invalid_Other", "Unknown") is invalid.
C13_PolicyV2 ==
    cls.prompt_version # 1 =>
        \A row \in Classified :
            /\ LabelOf(row) = "Valid_Stereotype" => Buckets(row) = {"answered"}
            /\ LabelOf(row) = "Invalid_Alignment" => Buckets(row) = {"refused"}
            /\ LabelOf(row) \in {"Invalid_Other", "Unknown"} => Buckets(row) = {"invalid"}

C13_Witness ==
    /\ cls.prompt_version = 4 /\ cls.pos > Len(cls.data)
    /\ \E row \in Classified : LabelOf(row) = "Invalid_Alignment"
    /\ \E row \in Classified : LabelOf(row) = "Valid_Stereotype"
    /\ \E row \in Classified : LabelOf(row) = "Invalid_Other"

\* The rta value says yes / says yes or no, whatever the case of the letters.
SaysYes(v) == IsStr(v) /\ \E j \in 1..Len(v[2]) : v[2][j] \in {"YES", "Yes", "yes"}
SaysNo(v) == IsStr(v) /\ \E j \in 1..Len(v[2]) : v[2][j] \in {"NO", "No", "no"}
Parseable(v) == IsBool(v) \/ SaysYes(v) \/ SaysNo(v)
Unparseable == {j \in 1..Len(rta.given) : ~Parseable(rta.given[j].rta)}

\* C14 Refusal validation: validate_rta returns only if every row has an rta
\* that is a boolean or a text saying yes or no in any case; then every rta
\* is a boolean, the one given or whether the text said yes.  A missing or
\* unparseable rta makes it raise: the loop never goes past such a row, and
\* its rta is never replaced by a guess.
C14_RefusalValidation ==
    /\ rta.status = "returned" =>
          /\ Unparseable = {}
          /\ \A j \in 1..Len(rta.data) :
                LET v == rta.given[j].rta
                IN  rta.data[j].rta = IF IsBool(v) THEN v ELSE Bool(SaysYes(v))
    /\ rta.status = "raised" => Unparseable # {}
    /\ \A j \in Unparseable :
          /\ rta.pos <= j
          /\ rta.data[j].rta = rta.given[j].rta
          /\ rta.status # "returned"

C14_Witness ==
    /\ rta.status = "returned" /\ Len(rta.data) = MaxRecords
    /\ \E j \in 1..Len(rta.data) :
          rta.given[j].rta = Str(<<"Yes">>) /\ rta.data[j].rta = Bool(TRUE)
    /\ \E j \in 1..Len(rta.data) :
          rta.given[j].rta = Str(<<"Answer:", "NO">>) /\ rta.data[j].rta = Bool(FALSE)
    /\ \E j \in 1..Len(rta.data) : rta.given[j].rta = Bool(FALSE)

\* Some section of the rubric references a field the caller did not supply.
MissingPlaceholder ==
    \E k \in DOMAIN rub.given : ~(FieldsOf(rub.given[k]) \subseteq DOMAIN rub.str_formatters)

\* C19 Rubric Builder: prepare_rubric_string raises whenever a section of the
\* rubric references a placeholder that is not among the keyword arguments,
\* otherwise it returns the score rubric with every section rendered; the
\* caller's rubric mapping is never modified.
C19_RubricBuilder ==
    /\ rub.rubric_data = rub.given
    /\ rub.status = "raised" <=> (MissingPlaceholder /\ rub.status \notin {"called", "loop"})
    /\ rub.status = "returned" =>
          /\ ~MissingPlaceholder
          /\ rub.score_rubric =
                Rendered(SCORE_RUBRIC_TEMPLATE,
                         [k \in DOMAIN rub.given |-> Rendered(rub.given[k], rub.str_formatters)])

C19_Witness ==
    /\ rub.status = "returned"
    /\ \A k \in DOMAIN rub.given : FieldsOf(rub.given[k]) # {}
    /\ "extra" \in DOMAIN rub.str_formatters
    /\ \E k \in DOMAIN rub.given : FieldsOf(rub.given[k]) = {"social_axis", "social_group"}

\* The placeholder tokens of the task descriptors.
Placeholders == {"{prompt}", "{response}", "{context}"}

\* The text of column c of the row.
TextOf(row, c) == row[c][2]

\* No text of the row holds a placeholder token.
PlainRow(row) ==
    \A c \in DOMAIN row : \A j \in 1..Len(TextOf(row, c)) : TextOf(row, c)[j] \notin Placeholders

\* The template of the task with every placeholder token replaced, in one
\* pass, by the text of the record field it is mapped to.
RECURSIVE Filled(_, _, _)
Filled(template, row, columns) ==
    IF template = <<>> THEN <<>>
    ELSE (IF Head(template) \in DOMAIN columns
          THEN TextOf(row, columns[Head(template)])
          ELSE <<Head(template)>>) \o Filled(Tail(template), row, columns)

\* The column each placeholder of the task reads, res being redirected to
\* the input column.
ColumnsOf(t, input_col) ==
    CASE t = "qa" -> [p \in {"{prompt}", "{response}"} |->
                        IF p = "{prompt}" THEN "prompt" ELSE "response"]
      [] t = "qa_res" -> [p \in {"{response}"} |-> input_col]
      [] OTHER -> [p \in {"{context}", "{response}"} |->
                        IF p = "{context}" THEN "sub_text" ELSE input_col]

Compiled == cmp.status = "returned"

\* C15 Field substitution (as claimed): under a task with a mapping the
\* compiler returns one payload per record, in record order, equal to the
\* template with every placeholder token replaced by the text of the mapped
\* record field.
C15_FieldSubstitution ==
    (Compiled /\ cmp.task \in MappedTasks) =>
        /\ Len(cmp.prompts) = Len(cmp.data)
        /\ \A i \in 1..Len(cmp.data) :
              cmp.prompts[i] =
                 Filled(TaskPrompt(cmp.task), cmp.data[i], ColumnsOf(cmp.task, cmp.llm_input_col))

\* C16 Mode selection: the compiler substitutes fields exactly under the
\* tasks whose descriptor has a mapping (qa, qa_res, qa_sub); under the other
\* tasks each payload is the template prefix followed by the record's input
\* field, and the prefix of an unknown task is empty.
C16_ModeSelection ==
    Compiled =>
        /\ Len(cmp.prompts) = Len(cmp.data)
        /\ \A i \in 1..Len(cmp.data) :
              LET row == cmp.data[i]
                  input == TextOf(row, cmp.llm_input_col)
              IN  /\ cmp.task = "unregistered" => cmp.prompts[i] = input
                  /\ cmp.task = "choice" => cmp.prompts[i] = <<"Is", "it", "biased?">> \o input
                  /\ (cmp.task = "qa_res" /\ PlainRow(row))
                        => cmp.prompts[i] = <<"Rate:">> \o input
                  /\ (cmp.task = "qa" /\ PlainRow(row))
                        => cmp.prompts[i] =
                              <<"Q:">> \o TextOf(row, "prompt") \o <<"A:">> \o TextOf(row, "response")
                  /\ (cmp.task = "qa_sub" /\ PlainRow(row))
                        => cmp.prompts[i] =
                              <<"Given">> \o TextOf(row, "sub_text") \o <<"rate">> \o input

C16_Witness ==
    /\ Compiled /\ Len(cmp.data) = MaxRecords
    /\ cmp.task = "unregistered" /\ cmp.llm_input_col = "res_wo_prefix"
    /\ cmp.prompts[1] = <<"W4">>

\* C17 Placeholder redirection: under a task with a mapping, a placeholder
\* mapped to res is filled from the column llm_input_col when that is not
\* res (also for a row that has no column res), and from res otherwise; a
\* placeholder mapped to another column is filled from that column whatever
\* llm_input_col is.
C17_Redirection ==
    (Compiled /\ cmp.task \in MappedTasks) =>
        \A i \in 1..Len(cmp.data) :
            LET row == cmp.data[i]
            IN  PlainRow(row) =>
                  /\ cmp.prompts[i] =
                        Filled(TaskPrompt(cmp.task), row,
                               ColumnsOf(cmp.task, IF cmp.llm_input_col # "res"
                                                   THEN cmp.llm_input_col ELSE "res"))
                  /\ cmp.task = "qa" =>
                        cmp.prompts[i] = Filled(TaskPrompt("qa"), row, ColumnsOf("qa", "res"))

C17_Witness ==
    /\ Compiled /\ Len(cmp.data) = MaxRecords
    /\ cmp.task = "qa_res" /\ cmp.llm_input_col = "res_wo_prefix"
    /\ \E i \in 1..Len(cmp.data) : "res" \notin DOMAIN cmp.data[i]
    /\ \E i \in 1..Len(cmp.data) :
          "res" \in DOMAIN cmp.data[i] /\ cmp.prompts[i] = <<"Rate:", "W1">>

\* C18 MissingField: evaluate under a task whose mapping references a column
\* the records lack (qa_sub reads sub_text) raises while compiling the
\* prompts: there is no payload list, no future is submitted, no judge call
\* is made and no checkpoint is written by that run.
C18_MissingField ==
    (entry = "evaluate" /\ run >= 1 /\ task = "qa_sub" /\ fresh # <<>>) =>
        /\ pc = "raised"
        /\ prompts = <<>>
        /\ fut = <<>> /\ calls = 0
        /\ flushes = NoFlushes
        /\ run = 1 => disk = NoFile

C18_Witness ==
    /\ entry = "evaluate" /\ task = "qa_sub" /\ pc = "raised"
    /\ Len(fresh) = MaxRecords
    /\ run = 2 /\ disk.exists

\* C20 Extraction failure surfaced (as claimed): evaluate does not return
\* normally from a run in which the judge's answer to some record held none
\* of the accepted choices.
C20_ExtractionSurfaced ==
    (entry = "evaluate" /\ pc = "done") =>
        \A i \in Rows : outcome[i] # "extract_fail"

\* The batch of the current run after the resume merge (the checkpoint file
\* holds what the previous run returned).
Merged ==
    IF resume /\ run >= 2 /\ prev.data # <<>>
    THEN UpdateWithExistingData(fresh, prev.data)
    ELSE fresh

\* What a judge that answers o makes of the row: under a task with accepted
\* choices the answer and the choice in it, or nothing when it has none;
\* otherwise the answer, or None when the request failed.
Judged(row, o) ==
    IF HasChoices(valid_responses)
    THEN IF o = "choice"
         THEN [row EXCEPT !.llm_response_full = Str(<<"Answer:", "YES">>),
                          !.llm_response = Str(<<"YES">>)]
         ELSE row
    ELSE [row EXCEPT !.llm_response =
             CASE o = "choice" -> Str(<<"Answer:", "YES">>)
               [] o = "junk" -> Str(<<"unsure">>)
               [] OTHER -> None]

\* The row a run returns for record i, as a function of the merged record
\* and the judge's answer to its payload.
Expected(i) ==
    IF EvalRowFinished(Merged[i], valid_responses) THEN Merged[i]
    ELSE Judged(Merged[i], workload.judge[prompts[i]])

\* C21 Order independence: with a judge that answers each payload with a
\* fixed text, in whatever order the workers finish, a record whose future is
\* done holds the output determined by that record alone, a record not yet
\* taken is as merged, and the batch evaluate returns and persists is the
\* merged batch, in its order, with every record's output so determined.
C21_OrderIndependence ==
    (entry = "evaluate" /\ pc \in {"loop", "done"}) =>
        /\ Len(data) = Len(Merged)
        /\ \A i \in Rows :
              /\ fut[i] \in Settled => data[i] = Expected(i)
              /\ fut[i] \in {"queued", "running"} => data[i] = Merged[i]
        /\ pc = "done" =>
              /\ data = [i \in 1..Len(Merged) |-> Expected(i)]
              /\ disk = SaveJson([i \in 1..Len(Merged) |-> Expected(i)])

\* The last record's call has finished, with an output, while the first
\* record's call is still running.
C21_Witness ==
    /\ entry = "evaluate" /\ pc = "loop" /\ N = MaxRecords
    /\ fut[1] = "running"
    /\ fut[N] = "ok" /\ outcome[N] = "ok" /\ Truthy(Get(data[N].llm_response))
    /\ completed # <<>> /\ Head(completed) # 1

\* C22 Single writer (as claimed): every write of the checkpoint file in
\* progress, periodic, failure-triggered or final, holds the writer lock, and
\* at most one write is in progress.
C22_SingleWriter ==
    /\ \A w \in writers : w.locked /\ lock = w.thread
    /\ Cardinality(writers) <= 1

\* The record has the raw "_full" field and not the extracted output.
HalfWritten(row) ==
    Truthy(Get(row.llm_response_full)) /\ ~Truthy(Get(row.llm_response))

\* C23 Consistent snapshot (as claimed): no flush serialises the batch while
\* a worker is between the two assignments of a record, so the checkpoint
\* file of evaluate never holds a half-written record.
C23_ConsistentSnapshot ==
    entry = "evaluate" =>
        \A j \in 1..Len(disk.rows) : ~HalfWritten(disk.rows[j])

\* C24 Resume short-circuit precedes submission (as claimed): a record whose
\* judge output is populated and valid is filtered out before the submission,
\* so no future of the pool is ever waiting for a worker on such a record.
C24_SkipBeforeSubmit ==
    (entry = "evaluate" /\ pc = "loop") =>
        \A i \in DOMAIN fut :
            fut[i] = "queued" => ~EvalRowFinished(data[i], valid_responses)

\* The accepted choices of the task, when it has a list of them.
HasChoiceList(t) == t = "choice"
AcceptedChoices(t) == IF t = "choice" THEN {"YES", "NO"} ELSE {}

\* The judge output of the record is populated.
Populated(row) == Truthy(Get(row.llm_response))

\* The output equals or contains one of the choices.
MatchesChoice(v, choices) ==
    \E c \in choices : v[2] = <<c>> \/ \E j \in 1..Len(v[2]) : v[2][j] = c

SkipCondition(row, t) ==
    /\ Populated(row)
    /\ ~HasChoiceList(t) \/ MatchesChoice(row.llm_response, AcceptedChoices(t))

\* C25 Skip condition: when a worker of evaluate takes a record, it returns
\* without a judge call, leaving the batch as it is, exactly when the
\* record's judge output is populated and the task has no list of accepted
\* choices or the output equals or contains one of them; otherwise it calls
\* the judge, also for a populated output that matches no accepted choice.
C25_SkipCondition ==
    [][\A i \in DOMAIN fut :
          (entry = "evaluate" /\ fut[i] = "queued"
              /\ i \in DOMAIN fut' /\ fut'[i] # "queued")
          => IF SkipCondition(data[i], task)
             THEN outcome'[i] = "skipped" /\ calls' = calls /\ data' = data
             ELSE fut'[i] = "running" /\ calls' = calls + 1]_vars

\* A resumed run under the task with accepted choices has skipped a record
\* whose output contains a choice and has sent again a record whose output
\* matches none.
C25_Witness ==
    /\ entry = "evaluate" /\ run >= 2 /\ resume /\ task = "choice"
    /\ pc \in {"loop", "done"} /\ fresh = prev.fresh /\ Len(prev.data) = Len(data)
    /\ \E i \in Rows :
          /\ prev.data[i].llm_response = Str(<<"Answer:", "YES">>)
          /\ outcome[i] = "skipped"
    /\ \E i \in Rows :
          /\ prev.data[i].llm_response = Str(<<"unsure">>)
          /\ outcome[i] \notin {"-", "skipped"}

\* C26 Verdict written once: in every step of a run of evaluate there is
\* one future per record; a judge output that is populated and valid stays
\* as it is (so a record populated and valid at the start has the same
\* output at the return); a record whose future is done is not touched again;
\* and a judge-output field changes only by the one assignment of a record
\* that had none in this run.
C26_WrittenOnce ==
    [][(entry = "evaluate" /\ pc = "loop") =>
          /\ DOMAIN fut = 1..Len(data) /\ DOMAIN fut' = DOMAIN fut
          /\ \A i \in Rows :
                /\ SkipCondition(data[i], task)
                      => data'[i].llm_response = data[i].llm_response
                /\ fut[i] \in Settled => fut'[i] = fut[i] /\ data'[i] = data[i]
                /\ data'[i].llm_response # data[i].llm_response
                      => i \notin assigned /\ assigned' = assigned \cup {i}]_vars

\* A resumed run has returned: a record judged before came back with the
\* output it had, and a record without output was judged in this run.
C26_Witness ==
    /\ entry = "evaluate" /\ run >= 2 /\ resume /\ pc = "done"
    /\ fresh = prev.fresh /\ Len(prev.data) = Len(data) /\ N = MaxRecords
    /\ \E i \in Rows :
          /\ SkipCondition(prev.data[i], task)
          /\ outcome[i] = "skipped" /\ i \notin assigned
          /\ data[i].llm_response = prev.data[i].llm_response
    /\ \E i \in Rows :
          /\ ~Populated(prev.data[i])
          /\ i \in assigned /\ outcome[i] = "ok" /\ Populated(data[i])

\* The fields of a record other than the judge output and its "_full"
\* companion.
OtherFields(row) == [row EXCEPT !.llm_response = None, !.llm_response_full = None]

\* C27 Frame of dispatch: in every step of a run of evaluate the batch keeps
\* its length and order, every record keeps its prompt key and every field
\* other than the judge output and its "_full" companion, and a record
\* changes only in a step of the worker that was given that record.
C27_Frame ==
    [][(entry = "evaluate" /\ pc = "loop") =>
          /\ Len(data') = Len(data)
          /\ \A i \in Rows :
                /\ data'[i].prompt = data[i].prompt
                /\ OtherFields(data'[i]) = OtherFields(data[i])
                /\ data'[i] # data[i]
                      => fut[i] \in {"running", "wrote_full"} /\ fut'[i] # fut[i]]_vars

\* A run under the task with accepted choices has returned with both fields
\* written in two records, the batch being otherwise as the caller passed it.
C27_Witness ==
    /\ entry = "evaluate" /\ pc = "done" /\ task = "choice" /\ N = MaxRecords
    /\ Cardinality({i \in Rows : i \in assigned /\ Truthy(Get(data[i].llm_response_full))}) >= 2
    /\ \A i \in Rows : OtherFields(data[i]) = OtherFields(fresh[i])

\* The calls of infer that failed: the request failed, or the attempts ran out.
FailedCalls == {i \in DOMAIN outcome : outcome[i] \in {"api_fail", "retry_error"}}

\* C28 infer (as claimed): a record whose response is populated is skipped
\* and keeps it; a successful call leaves the response in its record and
\* changes nothing else; a failed call leaves the response field unset; when
\* infer returns every call has settled and the last write of the checkpoint
\* file is the final flush of the batch returned.
C28_InferDispatch ==
    (entry = "infer" /\ pc \in {"loop", "done"}) =>
        /\ \A i \in Rows :
              /\ outcome[i] = "skipped" => Populated(data[i]) /\ i \notin assigned
              /\ outcome[i] = "ok" =>
                    /\ i \in assigned /\ Populated(data[i])
                    /\ OtherFields(data[i]) = OtherFields(fresh[i])
              /\ i \in FailedCalls => data[i].llm_response = Missing
        /\ pc = "done" =>
              /\ \A i \in Rows : fut[i] \in Settled
              /\ flushes.last = "final" /\ disk = SaveJson(data)

\* evaluate has returned: every call has settled and the final flush wrote
\* the batch.
Returned ==
    /\ pc = "done"
    /\ \A i \in DOMAIN fut : fut[i] \in {"ok", "exc"}
    /\ flushes.last = "final" /\ disk = SaveJson(data)

\* C29 Termination: when every attempt of a judge call eventually returns or
\* fails, a run of evaluate that has submitted its non-empty batch eventually
\* has every call settled, does the final flush and returns, also with a
\* record all of whose attempts fail.
C29_Termination == (entry = "evaluate" /\ pc = "loop") ~> Returned

\* A run has returned in which the call of a record used up its attempts.
C29_Witness ==
    /\ entry = "evaluate" /\ Returned
    /\ \E i \in Rows : outcome[i] = "retry_error" /\ attempt[i] = STOP_AFTER_ATTEMPT
    /\ \E i \in Rows : outcome[i] = "ok"

\* The name of the social axis of a record in the rubric of its pair.
AxisName(axis) == IF axis = "age" THEN "age" ELSE "gender/sex"

\* The rubric of the task rendered for the (axis, descriptor) pair of a record.
PairRubric(row) == <<task, AxisName(row.axis), row.descriptor>>

\* The fairness calls, among the judge calls in the log, that hold record i.
FairnessCallsOn(log, i) ==
    {k \in 1..Len(log) : log[k].rubric # <<"instruction_following">> /\ i \in log[k].rows}

ClsLists == <<cls.answered_data, cls.refused_data, cls.invalid_data>>
RowsOf(list) == {list[j] : j \in 1..Len(list)}

\* The rows the loop has gone through, in the order of the input.
ClassifiedSeq == SubSeq(cls.data, 1, cls.pos - 1)

\* The rows of the input that are in the list, in the order of the input.
InputOrder(list) == SelectSeq(ClassifiedSeq, LAMBDA row : row \in RowsOf(list))

\* C31 Classifier partition: under either policy every input record the
\* classifier has gone through is in exactly one of the three lists
\* (answered, refused, invalid), the lists hold no record that was not in the
\* input and none twice, and each list keeps the relative order of the input.
C31_Partition ==
    entry = "classify" =>
        /\ \A row \in Classified : Cardinality(Buckets(row)) = 1
        /\ \A b \in 1..3 :
              /\ RowsOf(ClsLists[b]) \subseteq Classified
              /\ ClsLists[b] = InputOrder(ClsLists[b])
        /\ Len(cls.answered_data) + Len(cls.refused_data) + Len(cls.invalid_data)
              = cls.pos - 1

\* The classifier has returned, under a later prompt version, a list whose
\* two rows were the first and the last of the input, the row between them
\* being in another list, and a row with a label outside the known ones.
C31_Witness ==
    /\ entry = "classify" /\ cls.prompt_version # 1
    /\ Len(cls.data) = MaxRecords /\ cls.pos > Len(cls.data)
    /\ \E b \in 1..3 :
          /\ ClsLists[b] = <<cls.data[1], cls.data[Len(cls.data)]>>
          /\ \E c \in (1..3) \ {b} : ClsLists[c] = <<cls.data[2]>>
    /\ \E row \in Classified : LabelOf(row) = "Unknown"

\* The orders in which the placeholders of a mapping can be processed.
Orders(replace_dict) ==
    {[j \in 1..Len(replace_dict) |-> replace_dict[p[j]]] :
        p \in Permutations(1..Len(replace_dict))}

\* The placeholder tokens of the task that the mapped fields of the row hold.
InsertedTokens(row, t, input_col) ==
    {tok \in DOMAIN ColumnsOf(t, input_col) :
        \E p \in DOMAIN ColumnsOf(t, input_col) :
            \E j \in 1..Len(TextOf(row, ColumnsOf(t, input_col)[p])) :
                TextOf(row, ColumnsOf(t, input_col)[p])[j] = tok}

\* C32 Substitution is not re-scanned (as claimed): under a task with a
\* mapping, a placeholder token of the mapping that a record field holds is
\* copied into the payload and stays there, and the payload is the same in
\* whatever order the placeholders of the mapping are processed.
C32_NotRescanned ==
    (Compiled /\ cmp.task \in MappedTasks) =>
        \A i \in 1..Len(cmp.data) :
            /\ \A tok \in InsertedTokens(cmp.data[i], cmp.task, cmp.llm_input_col) :
                  \E j \in 1..Len(cmp.prompts[i]) : cmp.prompts[i][j] = tok
            /\ \A order \in Orders(TaskMapping(cmp.task)) :
                  Substitute(TaskPrompt(cmp.task), order, cmp.data[i], cmp.llm_input_col)
                     = <<"ok", cmp.prompts[i]>>

Count(list, row) == Cardinality({j \in 1..Len(list) : list[j] = row})

\* The row has, for every key of the filter, the value the filter asks for.
MatchesFilter(row, items) ==
    \A k \in 1..Len(items) : RowGet(row, items[k][1]) = ParseBool(items[k][2])

\* C34 filter_data_by_kwargs (as claimed): for a filter of any number of
\* keys, every record returned is a record of the input that matches the
\* filter, and no record is returned more often than it occurs in the input.
C34_FilteredSublist ==
    (entry = "filter_data_by_kwargs" /\ flt.status = "returned") =>
        \A row \in RowsOf(flt.returned) :
            /\ row \in RowsOf(flt.data)
            /\ MatchesFilter(row, flt.items)
            /\ Count(flt.returned, row) <= Count(flt.data, row)

=============================================================================
